---- MODULE Spec2Model ----
(***************************************************************************)
(* A model of the utility core of mpl-format: keyframe animations          *)
(* (FloatAnimation, ColorAnimation, Rate), colour cross-fading,            *)
(* smart_zip_kwargs, the shape-adding and alignment-setting formatter      *)
(* methods, what the formatters' methods return to a chain of calls,       *)
(* save_plot and the tick-label number formats.                            *)
(*                                                                         *)
(* Numbers that are floats in the program are exact rationals <<n, d>>     *)
(* here (d > 0, lowest terms); texts are sequences of one-character        *)
(* strings, so that endswith, split and concatenation are computed.        *)
(***************************************************************************)
EXTENDS Integers, Sequences, FiniteSets, TLC

VARIABLES
    floatAnim,   \* the FloatAnimation object: values, t, rate, constructor error
    floatAt,     \* the last call of FloatAnimation.at: argument and outcome
    colorAnim,   \* the ColorAnimation object: colors, t, rate, constructor error
    colorAt,     \* the last call of ColorAnimation.at: argument and outcome
    rateCall,    \* the last construction from a rate name: class, name, outcome
    zipKwargs,   \* the keyword arguments of a smart_zip_kwargs call, in order
    zipOut,      \* what the call yielded: the list of dicts
    patches,     \* the artists added to the wrapped Axes, in order
    shapeCall,   \* the last add_arrow / add_rectangle call: arguments, outcome
    texts,       \* the Text objects wrapped by a TextListFormatter: ha and va
    alignCall,   \* the last set_ha / set_va call: receiver, argument, outcome
    receiver,    \* the formatter the next call of a chain is made on
    chainCall,   \* the last call of a chain: object, method, object returned
    saveCall,    \* the last save_plot call: arguments, name given to savefig, outcome
    tickLabel,   \* a tick, the formatters' options, the labels the formatters gave it
    wrapCall,    \* a call of wrap_text: its arguments and what it returned
    mapCall,     \* a call of map_text: its arguments and what it returned
    figFormatter, \* a FigureFormatter: its Figure and its Axes or array of Axes
    titles,      \* the title text of each Axes of the Figure
    setTextCall, \* the last call of a per-Axes text setter and its outcome
    parenLoop,   \* a call of remove_parenthesized_text: its text and where it is
    legendAxes,  \* an Axes: its labelled artists, its legend, the legends made so far
    legendFormatter, \* the Legend wrapped by the _legend of its AxesFormatter
    legendCall,  \* the last call on the AxesFormatter or its LegendFormatter
    tickAxis,    \* a categorical axis: its tick labels and tick locations
    keepCall,    \* a call of keep_ticks: its arguments and the axis before it
    animator,    \* the AxesAnimator: duration, shapes, position inside animate()
    animCalls,   \* the draw and snap calls animate() has made, in order
    styleOption, \* the style option of a call: its keyword and its value
    styleCall    \* the call it was given to: what the plotting library received

floatVars == <<floatAnim, floatAt>>
colorVars == <<colorAnim, colorAt>>
rateVars == <<rateCall>>

zipVars == <<zipKwargs, zipOut>>

shapeVars == <<patches, shapeCall>>

textVars == <<texts, alignCall>>

chainVars == <<receiver, chainCall>>

saveVars == <<saveCall>>
tickVars == <<tickLabel>>


(***************************************************************************)
(* Bounds of the model.                                                    *)
(***************************************************************************)
\* longest list of control values / timestamps
MaxKeys == 3
\* timestamps and query times are k / TMax for k in 0..TMax
TMax == 4
\* most keyword arguments of one smart_zip_kwargs call
MaxArgs == 3
\* longest list-like argument
MaxListLen == 3
\* add_arrow and add_rectangle are called while the Axes holds fewer patches
MaxPatches == 2
\* number of Text objects in the TextListFormatter
NumTexts == 2
\* twin_x and twin_y are called on the first MaxFormatters - 1 AxesFormatters
MaxFormatters == 2
\* file paths are a stem of up to MaxStemLen characters and an ending
MaxStemLen == 2
\* tick values are m * 10^k with m up to MaxMantissa and k from -1 to MaxExponent
MaxMantissa == 25
MaxExponent == 15

(***************************************************************************)
(* Exact rational arithmetic (Python floats, without rounding).            *)
(***************************************************************************)
Abs(x) == IF x < 0 THEN -x ELSE x

RECURSIVE GCD(_, _)
GCD(a, b) == IF b = 0 THEN a ELSE GCD(b, a % b)

\* the rational n / d (d # 0) in lowest terms with a positive denominator
Rat(n, d) ==
    LET g == GCD(Abs(n), Abs(d))
        s == IF d < 0 THEN -1 ELSE 1
    IN  <<(s * n) \div g, (s * d) \div g>>

RatInt(n) == <<n, 1>>
RatAdd(a, b) == Rat(a[1] * b[2] + b[1] * a[2], a[2] * b[2])
RatSub(a, b) == Rat(a[1] * b[2] - b[1] * a[2], a[2] * b[2])
RatMul(a, b) == Rat(a[1] * b[1], a[2] * b[2])
\* a / b for b # 0
RatDiv(a, b) == Rat(a[1] * b[2], a[2] * b[1])
RatLe(a, b) == a[1] * b[2] <= b[1] * a[2]
RatLt(a, b) == a[1] * b[2] < b[1] * a[2]

Zero == RatInt(0)

(***************************************************************************)
(* Rate (animation/rate.py).                                               *)
(***************************************************************************)
\* the rate functions a Rate object can hold; "not_callable" is a stored
\* value that is no function (what getattr(self, name)() returned)
BuiltInRates == {"linear", "quadratic", "cubic"}

\* What hasattr(self, name) and getattr(self, name)() give inside
\* Rate.__init__, where self is a Rate whose _lambda_t is not yet set:
\*   "rate"       a classmethod returning a Rate (linear, quadratic, cubic)
\*   "value"      an inherited method callable without arguments that
\*                returns a non-callable (object.__str__, __repr__)
\*   "type_error" an attribute that cannot be called without arguments
\*                (__init__, __call__, __class__) or is not callable (__doc__)
\*   "absent"     no such attribute
RateAttr(name) ==
    CASE name \in BuiltInRates -> "rate"
      [] name \in {"__str__", "__repr__"} -> "value"
      [] name \in {"__init__", "__call__", "__class__", "__doc__"} -> "type_error"
      [] OTHER -> "absent"

\* Rate.__init__(lambda_t) for a str argument
RateFromStr(name) ==
    IF RateAttr(name) # "absent"
    THEN CASE RateAttr(name) = "rate" -> [err |-> "none", fn |-> name]
           [] RateAttr(name) = "value" -> [err |-> "none", fn |-> "not_callable"]
           [] RateAttr(name) = "type_error" -> [err |-> "TypeError", fn |-> "unset"]
    ELSE [err |-> "ValueError", fn |-> "unset"]

\* Rate.__init__(lambda_t) for a callable argument
RateFromCallable(fn) == [err |-> "none", fn |-> fn]

\* Rate.__call__(t): the eased fraction, or the error of calling a non-function
RateCall(rate, x) ==
    CASE rate.fn = "linear" -> [err |-> "none", val |-> x]
      [] rate.fn = "quadratic" -> [err |-> "none", val |-> RatMul(x, x)]
      [] rate.fn = "cubic" -> [err |-> "none", val |-> RatMul(x, RatMul(x, x))]
      \* Rate(lambda t: 1 - t), a caller's own function
      [] rate.fn = "one_minus" -> [err |-> "none", val |-> RatSub(RatInt(1), x)]
      \* FloatAnimation.rotation(cycles=1): phase * 360 + multiplier * t * cycles * 360
      [] rate.fn = "rotation_cw" ->
            [err |-> "none",
             val |-> RatAdd(RatInt(0 * 360), RatMul(RatInt(-1 * 1 * 360), x))]
      [] OTHER -> [err |-> "TypeError", val |-> Zero]

\* the rate argument of the animation constructors: None, a Rate, or a str
\*   self.rate = Rate.linear() if rate is None else
\*               rate if isinstance(rate, Rate) else Rate(rate)
RateArg(arg) ==
    CASE arg.tag = "none" -> RateFromCallable("linear")
      [] arg.tag = "rate" -> RateFromCallable(arg.name)
      [] arg.tag = "str" -> RateFromStr(arg.name)

(***************************************************************************)
(* FloatAnimation (animation/kwarg_animations/float_animation.py).         *)
(* Timestamps and query times are rationals, control values integers.      *)
(* An optional argument is a record [some, v]: None is [some |-> FALSE].   *)
(***************************************************************************)
Some(v) == [some |-> TRUE, v |-> v]
None == [some |-> FALSE, v |-> <<>>]

\* FloatAnimation.__init__(values, t, rate)
FloatAnimation_init(values, t, rate) ==
    [values |-> IF values.some THEN values.v ELSE <<0, 1>>,
     t      |-> IF t.some THEN t.v ELSE <<RatInt(0), RatInt(1)>>,
     rate   |-> RateArg(rate),
     err    |-> RateArg(rate).err]

\* (mutant of SegmentReached: the segment's right end is excluded)
SegmentReachedStrict(tNext, q) == RatLt(q, tNext)

\* the comparison of the loop of at(): self.t[i + 1] >= t
SegmentReached(tNext, q) == RatLe(q, tNext)

\* FloatAnimation.at(t): the loop `for i in range(len(self.t))`, from Python
\* index i on.  self.t[i] is t[i + 1] here.
RECURSIVE FloatAtFrom(_, _, _)
FloatAtFrom(self, q, i) ==
    IF i >= Len(self.t)
    THEN [err |-> "returns_none", val |-> Zero]     \* the loop ran out: len(t) = 0
    ELSE IF i + 1 >= Len(self.t)
    THEN [err |-> "IndexError", val |-> Zero]       \* self.t[i + 1]
    ELSE IF SegmentReached(self.t[i + 2], q)
    THEN IF RatSub(self.t[i + 2], self.t[i + 1]) = Zero
         THEN [err |-> "ZeroDivisionError", val |-> Zero]
         ELSE LET dt == RateCall(self.rate,
                                 RatDiv(RatSub(q, self.t[i + 1]),
                                        RatSub(self.t[i + 2], self.t[i + 1])))
              IN  IF dt.err # "none"
                  THEN [err |-> dt.err, val |-> Zero]
                  ELSE IF i + 2 > Len(self.values)
                  THEN [err |-> "IndexError", val |-> Zero]   \* self.values[i + 1]
                  ELSE [err |-> "none",
                        val |-> RatAdd(RatInt(self.values[i + 1]),
                                       RatMul(RatInt(self.values[i + 2] - self.values[i + 1]),
                                              dt.val))]
    ELSE FloatAtFrom(self, q, i + 1)

FloatAnimation_at(self, q) == FloatAtFrom(self, q, 0)

RECURSIVE Reversed(_)
Reversed(s) == IF s = <<>> THEN <<>> ELSE Append(Reversed(Tail(s)), Head(s))

\* FloatAnimation.set_values(values)
FloatAnimation_set_values(self, values) == [self EXCEPT !.values = values]

\* FloatAnimation.reverse_values(): a new FloatAnimation
FloatAnimation_reverse_values(self) ==
    FloatAnimation_init(Some(Reversed(self.values)), Some(self.t),
                        [tag |-> "rate", name |-> self.rate.fn])

(***************************************************************************)
(* Inputs of the animation model.                                          *)
(***************************************************************************)
SeqsUpTo(S, lo, hi) == UNION {[1..n -> S] : n \in lo..hi}

IsSorted(s) == \A i \in 1..(Len(s) - 1) : RatLe(s[i], s[i + 1])
IsStrictlyIncreasing(s) == \A i \in 1..(Len(s) - 1) : RatLt(s[i], s[i + 1])

ControlValues == {1, 3}
ValueLists == SeqsUpTo(ControlValues, 2, MaxKeys)
\* ordered timestamps; equal neighbours are allowed by the constructor
Times == {Rat(k, TMax) : k \in 0..TMax}
TimeLists == {s \in SeqsUpTo(Times, 2, MaxKeys) : IsSorted(s)}
QueryTimes == Times

RateNames == {"linear", "quadratic", "cubic", "sine_wave", "Linear", "",
              "__str__", "__init__", "__call__", "__doc__"}
RateArgs ==
    {[tag |-> "none", name |-> ""]}
    \cup {[tag |-> "rate", name |-> n] : n \in {"cubic", "one_minus", "rotation_cw"}}
    \cup {[tag |-> "str", name |-> n] : n \in {"quadratic", "__str__"}}

NotCalled == [called |-> FALSE, t |-> Zero, err |-> "none", val |-> Zero]
Called(q, out) == [called |-> TRUE, t |-> q, err |-> out.err, val |-> out.val]

NoFloatAnim == [values |-> <<>>, t |-> <<>>, rate |-> [err |-> "none", fn |-> "unset"],
                err |-> "unbuilt"]

(***************************************************************************)
(* Colours (utils/color_utils.py).  A colour is a name (a str) or a tuple  *)
(* of three or four channel values: [name, ch], with name = "" for a       *)
(* tuple.                                                                  *)
(***************************************************************************)
NamedColor(name) == [name |-> name, ch |-> <<>>]
TupleColor(ch) == [name |-> "", ch |-> ch]
IsStr(color) == color.name # ""

Half == Rat(1, 2)
One == RatInt(1)

\* matplotlib.colors.to_rgba of a colour name: the named colours are opaque,
\* an eight-digit hex string carries its own alpha
NamedRGBA(name) ==
    CASE name = "red" -> <<One, Zero, Zero, One>>
      [] name = "blue" -> <<Zero, Zero, One, One>>
      [] name = "#ff000080" -> <<One, Zero, Zero, Rat(128, 255)>>

\* matplotlib.colors.to_rgba: a tuple of three channels gets alpha 1
to_rgba(color) ==
    IF IsStr(color) THEN NamedRGBA(color.name)
    ELSE IF Len(color.ch) = 3 THEN Append(color.ch, One)
    ELSE color.ch

\* matplotlib.colors.to_rgb: to_rgba without the alpha channel
to_rgb(color) == SubSeq(to_rgba(color), 1, 3)

\* the conversion cross_fade applies to a colour given as a str
StrToChannels(color) == to_rgb(color)

\* cross_fade(from_color, to_color, amount) for a scalar amount
cross_fade(from_color, to_color, amount) ==
    LET from == IF IsStr(from_color) THEN StrToChannels(from_color) ELSE from_color.ch
        to   == IF IsStr(to_color) THEN StrToChannels(to_color) ELSE to_color.ch
        n    == IF Len(from) < Len(to) THEN Len(from) ELSE Len(to)   \* zip
    IN  [k \in 1..n |-> RatAdd(from[k], RatMul(amount, RatSub(to[k], from[k])))]

\* set_alpha(color, alpha)
set_alpha(color, alpha) ==
    LET c == to_rgba(color) IN TupleColor(<<c[1], c[2], c[3], alpha>>)

(***************************************************************************)
(* ColorAnimation (animation/kwarg_animations/color_animation.py).         *)
(***************************************************************************)
\* list(numpy.linspace(0, 1, n))
Linspace01(n) == [k \in 1..n |-> IF n = 1 THEN Zero ELSE Rat(k - 1, n - 1)]

\* ColorAnimation.__init__(colors, t, rate)
ColorAnimation_init(colors, t, rate) ==
    [colors |-> colors,
     t      |-> IF t.some THEN t.v ELSE Linspace01(Len(colors)),
     rate   |-> RateArg(rate),
     err    |-> RateArg(rate).err]

\* ColorAnimation.fade_in(color)
ColorAnimation_fade_in(color) ==
    ColorAnimation_init(<<set_alpha(color, Zero), color>>,
                        Some(<<RatInt(0), RatInt(1)>>),
                        [tag |-> "none", name |-> ""])

\* ColorAnimation.at(t): the loop `for i in range(len(self.t))`, from Python
\* index i on
RECURSIVE ColorAtFrom(_, _, _)
ColorAtFrom(self, q, i) ==
    IF i >= Len(self.t)
    THEN [err |-> "returns_none", val |-> <<>>]
    ELSE IF i + 1 >= Len(self.t)
    THEN [err |-> "IndexError", val |-> <<>>]       \* self.t[i + 1]
    ELSE IF RatLe(q, self.t[i + 2])
    THEN IF RatSub(self.t[i + 2], self.t[i + 1]) = Zero
         THEN [err |-> "ZeroDivisionError", val |-> <<>>]
         ELSE LET dt == RateCall(self.rate,
                                 RatDiv(RatSub(q, self.t[i + 1]),
                                        RatSub(self.t[i + 2], self.t[i + 1])))
              IN  IF dt.err # "none"
                  THEN [err |-> dt.err, val |-> <<>>]
                  ELSE IF i + 2 > Len(self.colors)
                  THEN [err |-> "IndexError", val |-> <<>>]   \* self.colors[i + 1]
                  ELSE [err |-> "none",
                        val |-> cross_fade(self.colors[i + 1], self.colors[i + 2],
                                           dt.val)]
    ELSE ColorAtFrom(self, q, i + 1)

ColorAnimation_at(self, q) == ColorAtFrom(self, q, 0)

(***************************************************************************)
(* Inputs and idle values of the animation model.                          *)
(***************************************************************************)
ColorInputs ==
    {NamedColor("red"), NamedColor("#ff000080"),
     TupleColor(<<Zero, Zero, One, Half>>), TupleColor(<<Zero, One, Zero>>)}
ColorLists == SeqsUpTo(ColorInputs, 2, MaxKeys)
IncreasingTimeLists == {s \in SeqsUpTo(Times, 2, MaxKeys) : IsStrictlyIncreasing(s)}
ColorRateArgs ==
    {[tag |-> "none", name |-> ""], [tag |-> "str", name |-> "quadratic"],
     [tag |-> "rate", name |-> "one_minus"]}

NoColorAnim == [colors |-> <<>>, t |-> <<>>, rate |-> [err |-> "none", fn |-> "unset"],
                err |-> "unbuilt"]
ColorNotCalled == [called |-> FALSE, t |-> Zero, err |-> "none", val |-> <<>>]
ColorCalled(q, out) == [called |-> TRUE, t |-> q, err |-> out.err, val |-> out.val]

NoRateCall == [cls |-> "none", arg |-> "", err |-> "none", fn |-> "unset"]

FloatIdle == floatAnim = NoFloatAnim /\ floatAt = NotCalled
ColorIdle == colorAnim = NoColorAnim /\ colorAt = ColorNotCalled
RateIdle == rateCall = NoRateCall

(***************************************************************************)
(* smart_zip and smart_zip_kwargs (utils/arg_transforms.py).               *)
(* A Python value is [kind, items]: None, a scalar (items = <<v>>), a str, *)
(* a tuple, a dict, or a list-like (list, array, Series) of scalars.       *)
(***************************************************************************)
PyNone == [kind |-> "none", items |-> <<>>]
PyScalar(v) == [kind |-> "scalar", items |-> <<v>>]
PyStr(chars) == [kind |-> "str", items |-> chars]
PyTuple(items) == [kind |-> "tuple", items |-> items]
PyDict(items) == [kind |-> "dict", items |-> items]
PyList(items) == [kind |-> "list", items |-> items]

\* isinstance(arg, Sized)
IsSized(arg) == arg.kind \in {"str", "tuple", "dict", "list"}

\* isinstance(arg, Sized) and not a dict, a str or a tuple
IsListLike(arg) == IsSized(arg) /\ arg.kind \notin {"dict", "str", "tuple"}

\* (mutant of IsZipped: every list-like is zipped, whatever its length)
IsZippedAnyLength(arg, max_arg_length) == IsListLike(arg)

\* the test of the second loop of smart_zip: the argument is iterated over
IsZipped(arg, max_arg_length) ==
    IsListLike(arg) /\ Len(arg.items) = max_arg_length

\* the first loop of smart_zip, from argument i on
RECURSIVE FindMaxArgLength(_, _, _)
FindMaxArgLength(args, i, max_arg_length) ==
    IF i > Len(args) THEN max_arg_length
    ELSE IF IsListLike(args[i]) /\ Len(args[i].items) > max_arg_length
    THEN FindMaxArgLength(args, i + 1, Len(args[i].items))
    ELSE FindMaxArgLength(args, i + 1, max_arg_length)

\* the second loop of smart_zip: each argument as a list of values
ZipValues(args, max_arg_length) ==
    [i \in 1..Len(args) |->
        IF IsZipped(args[i], max_arg_length)
        THEN [k \in 1..Len(args[i].items) |-> PyScalar(args[i].items[k])]
        ELSE [k \in 1..max_arg_length |-> args[i]]]

RECURSIVE MinLen(_, _)
MinLen(lists, i) ==
    IF i = Len(lists) THEN Len(lists[i])
    ELSE LET rest == MinLen(lists, i + 1)
         IN  IF Len(lists[i]) < rest THEN Len(lists[i]) ELSE rest

\* zip(*values): as many tuples as the shortest list has, none without lists
Zip(lists) ==
    IF lists = <<>> THEN <<>>
    ELSE [k \in 1..MinLen(lists, 1) |-> [i \in 1..Len(lists) |-> lists[i][k]]]

\* smart_zip(*args): the value sets it yields
smart_zip(args) == Zip(ZipValues(args, FindMaxArgLength(args, 1, 1)))

\* smart_zip_kwargs(**kwargs): the dicts it yields; kwargs is the sequence of
\* [key, value] in the order they were passed
smart_zip_kwargs(kwargs) ==
    LET keys == [i \in 1..Len(kwargs) |-> kwargs[i].key]
        values == [i \in 1..Len(kwargs) |-> kwargs[i].value]
        sets == smart_zip(values)
    IN  [k \in 1..Len(sets) |->
            [key \in {keys[i] : i \in 1..Len(keys)} |->
                sets[k][CHOOSE i \in 1..Len(keys) :
                           /\ keys[i] = key
                           /\ \A j \in (i + 1)..Len(keys) : keys[j] # key]]]

\* inputs: the keyword names, in the order passed, and the values
KeyNames == <<"x", "y", "label", "color", "alpha">>
Range1(base, n) == [k \in 1..n |-> base + k]
ZipInputValues ==
    {PyNone, PyScalar(7), PyStr(<<"r", "e", "d">>), PyTuple(<<1, 2>>),
     PyDict(<<1, 2>>)}
    \cup {PyList(Range1(10, n)) : n \in 0..MaxListLen}
ZipInputs ==
    UNION {{[i \in 1..n |-> [key |-> KeyNames[i], value |-> v[i]]] :
               v \in [1..n -> ZipInputValues]} : n \in 0..MaxArgs}

ZipNotCalled == [called |-> FALSE, dicts |-> <<>>]
ZipIdle == zipKwargs = <<>> /\ zipOut = ZipNotCalled

(***************************************************************************)
(* The style enumerations (enums/) and the table of their converters       *)
(* (enums/mappings.py).  A style option is a member of an enumeration, a   *)
(* str or None: [kind, cls, name]; a converter that raises yields the      *)
(* exception as its value.                                                 *)
(***************************************************************************)
Member(cls, name) == [kind |-> "enum", cls |-> cls, name |-> name]
StyleStr(name) == [kind |-> "str", cls |-> "", name |-> name]
StyleNone == [kind |-> "none", cls |-> "", name |-> ""]
Raised(err) == [kind |-> "raise", cls |-> "", name |-> err]

\* the dict of each get_name method, by member name
BOX_STYLE_get_name ==
    [circle |-> "circle", double_arrow |-> "darrow", left_arrow |-> "larrow",
     right_arrow |-> "rarrow", round |-> "round", round_4 |-> "round4",
     round_tooth |-> "roundtooth", saw_tooth |-> "sawtooth", square |-> "square"]
FONT_SIZE_get_name ==
    [xx_small |-> "xx-small", x_small |-> "x-small", small |-> "small",
     medium |-> "medium", large |-> "large", x_large |-> "x-large",
     xx_large |-> "xx-large"]
FONT_STRETCH_get_name ==
    [ultra_condensed |-> "ultra-condensed", extra_condensed |-> "extra-condensed",
     condensed |-> "condensed", semi_condensed |-> "semi-condensed",
     normal |-> "normal", semi_expanded |-> "semi-expanded",
     expanded |-> "expanded", extra_expanded |-> "extra-expanded",
     ultra_expanded |-> "ultra-expanded"]
FONT_VARIANT_get_name == [normal |-> "normal", small_caps |-> "small-caps"]
FONT_WEIGHT_get_name ==
    [ultra_light |-> "ultralight", light |-> "light", normal |-> "normal",
     regular |-> "regular", book |-> "book", medium |-> "medium",
     roman |-> "roman", semi_bold |-> "semibold", demi_bold |-> "demibold",
     demi |-> "demi", bold |-> "bold", heavy |-> "heavy",
     extra_bold |-> "extra bold", black |-> "black"]
LINE_STYLE_get_name ==
    [solid |-> "solid", dashed |-> "dashed", dash_dot |-> "dashdot",
     dotted |-> "dotted"]

\* the enumerations that define get_name; CAP_STYLE, JOIN_STYLE and
\* FONT_STYLE do not
GetNameDicts ==
    [BOX_STYLE |-> BOX_STYLE_get_name, FONT_SIZE |-> FONT_SIZE_get_name,
     FONT_STRETCH |-> FONT_STRETCH_get_name, FONT_VARIANT |-> FONT_VARIANT_get_name,
     FONT_WEIGHT |-> FONT_WEIGHT_get_name, LINE_STYLE |-> LINE_STYLE_get_name]

\* the members of each enumeration
MemberNames ==
    [BOX_STYLE |-> DOMAIN BOX_STYLE_get_name,
     CAP_STYLE |-> {"butt", "round", "projecting"},
     FONT_SIZE |-> DOMAIN FONT_SIZE_get_name,
     FONT_STRETCH |-> DOMAIN FONT_STRETCH_get_name,
     FONT_STYLE |-> {"normal", "italic", "oblique"},
     FONT_VARIANT |-> DOMAIN FONT_VARIANT_get_name,
     FONT_WEIGHT |-> DOMAIN FONT_WEIGHT_get_name,
     JOIN_STYLE |-> {"miter", "round", "bevel"},
     LINE_STYLE |-> DOMAIN LINE_STYLE_get_name]

\* member.get_name(): AttributeError where the class has no such method
get_name(member) ==
    IF member.cls \in DOMAIN GetNameDicts
    THEN StyleStr(GetNameDicts[member.cls][member.name])
    ELSE Raised("AttributeError")

\* the converters that read member.name instead of calling get_name
ReadsName == {"CAP_STYLE", "JOIN_STYLE", "LINE_STYLE"}

\* CLS.get_..._style(value), the static method of enumeration cls:
\*   if value and isinstance(value, CLS): value = value.name or value.get_name()
\*   return value
get_style(cls, value) ==
    IF value.kind = "enum" /\ value.cls = cls
    THEN IF cls \in ReadsName THEN StyleStr(value.name) ELSE get_name(value)
    ELSE value

\* kwarg_mappings: the enumeration whose converter stands under each key
kwarg_mappings ==
    [boxstyle |-> "BOX_STYLE", capstyle |-> "CAP_STYLE", fontsize |-> "FONT_SIZE",
     fontstretch |-> "FONT_STRETCH", fontstyle |-> "FONT_STYLE",
     fontvariant |-> "FONT_VARIANT", fontweight |-> "FONT_WEIGHT",
     joinstyle |-> "JOIN_STYLE", linestyle |-> "LINE_STYLE"]

(***************************************************************************)
(* AxesFormatter.add_arrow and add_rectangle (axes/axes_formatter.py),     *)
(* with the argument checks of utils/type_checks.py.  The optional style   *)
(* arguments (alpha, color, line_style, ...) are left at None by the       *)
(* caller: drop_none_values removes them from every dict.                  *)
(***************************************************************************)
IsNone(v) == v.kind = "none"

\* sum([arg is not None for arg in args])
RECURSIVE CountNotNone(_)
CountNotNone(args) ==
    IF args = <<>> THEN 0
    ELSE (IF IsNone(Head(args)) THEN 0 ELSE 1) + CountNotNone(Tail(args))

\* (mutant of one_is_not_none: at least one is enough)
some_are_not_none(args) == CountNotNone(args) >= 1

\* one_is_not_none(*args)
one_is_not_none(args) == CountNotNone(args) = 1

\* all_are_none(*args)
all_are_none(args) == \A i \in 1..Len(args) : IsNone(args[i])

\* drop_none_values(items)
drop_none_values(items) ==
    [key \in {k \in DOMAIN items : ~IsNone(items[k])} |-> items[key]]

\* apply_mappings(items, kwarg_mappings): kwarg_mappings has no entry for the
\* position arguments and fill, which pass unchanged
apply_mappings(items) ==
    [key \in DOMAIN items |->
        IF key \in DOMAIN kwarg_mappings
        THEN get_style(kwarg_mappings[key], items[key])
        ELSE items[key]]

Kw(key, value) == [key |-> key, value |-> value]

\* a patch of the Axes: an Arrow (a, b are dx, dy) or a Rectangle (a, b are
\* width, height; x, y its xy corner); numbers are rationals
Patch(shape, x, y, a, b, angle) ==
    [shape |-> shape, x |-> x, y |-> y, a |-> a, b |-> b, angle |-> angle]

Num(v) == RatInt(v.items[1])
IsScalar(v) == v.kind = "scalar"

\* one pass of the loop body of add_arrow on the dict `zipped`: the patch added
\* or the error raised
ArrowStep(zipped) ==
    LET kwargs == apply_mappings(drop_none_values(zipped))
    IN  IF "x_head" \notin DOMAIN kwargs
        THEN [err |-> "KeyError", patch |-> <<>>]          \* kwargs['x_head']
        ELSE IF ~(IsScalar(kwargs["x_head"]) /\ IsScalar(kwargs["x"]))
        THEN [err |-> "TypeError", patch |-> <<>>]
        ELSE IF "y_head" \notin DOMAIN kwargs
        THEN [err |-> "KeyError", patch |-> <<>>]          \* kwargs['y_head']
        ELSE IF ~(IsScalar(kwargs["y_head"]) /\ IsScalar(kwargs["y"]))
        THEN [err |-> "TypeError", patch |-> <<>>]
        ELSE [err |-> "none",
              patch |-> <<Patch("Arrow", Num(kwargs["x"]), Num(kwargs["y"]),
                                RatSub(Num(kwargs["x_head"]), Num(kwargs["x"])),
                                RatSub(Num(kwargs["y_head"]), Num(kwargs["y"])),
                                Zero)>>]

\* r * cos(theta + pi * a / 180) and r * sin(theta + pi * a / 180) for
\* r = ((w / 2) ** 2 + (h / 2) ** 2) ** 0.5, theta = atan2(h, w), w, h >= 0
\* and a quarter turn a
RCos(w, h, a) ==
    CASE a = 0 -> RatDiv(w, RatInt(2))
      [] a = 90 -> RatSub(Zero, RatDiv(h, RatInt(2)))
RSin(w, h, a) ==
    CASE a = 0 -> RatDiv(h, RatInt(2))
      [] a = 90 -> RatDiv(w, RatInt(2))

\* one pass of the loop body of add_rectangle on the dict `zipped`
RectangleStep(args, zipped) ==
    IF ~one_is_not_none(<<args.x_left, args.x_center>>)
    THEN [err |-> "ValueError", patch |-> <<>>]
    ELSE IF ~one_is_not_none(<<args.y_bottom, args.y_center>>)
    THEN [err |-> "ValueError", patch |-> <<>>]
    ELSE IF ~(all_are_none(<<args.x_left, args.y_bottom>>)
              \/ all_are_none(<<args.x_center, args.y_center>>))
    THEN [err |-> "ValueError", patch |-> <<>>]
    ELSE LET kwargs == apply_mappings(drop_none_values(zipped))
             w == Num(kwargs["width"])
             h == Num(kwargs["height"])
             a == kwargs["angle"].items[1]
         IN  IF all_are_none(<<args.x_left, args.y_bottom>>)
             THEN LET x_c == Num(kwargs["x_center"])
                      y_c == Num(kwargs["y_center"])
                      x_l == RatSub(x_c, RatDiv(w, RatInt(2)))
                      y_b == RatSub(y_c, RatDiv(h, RatInt(2)))
                      xc_new == RatAdd(x_l, RCos(w, h, a))
                      yc_new == RatAdd(y_b, RSin(w, h, a))
                  IN  [err |-> "none",
                       patch |-> <<Patch("Rectangle",
                                         RatSub(RatAdd(x_l, x_c), xc_new),
                                         RatSub(RatAdd(y_b, y_c), yc_new),
                                         w, h, RatInt(a))>>]
             ELSE [err |-> "none",
                   patch |-> <<Patch("Rectangle", Num(kwargs["x_left"]),
                                     Num(kwargs["y_bottom"]), w, h, RatInt(a))>>]

\* the loop `for kwargs in smart_zip_kwargs(...)` of add_arrow, from dict k
\* on: the Axes' patches and the error that ended the loop
RECURSIVE ArrowLoop(_, _, _)
ArrowLoop(dicts, k, axesPatches) ==
    IF k > Len(dicts) THEN [err |-> "none", patches |-> axesPatches]
    ELSE LET step == ArrowStep(dicts[k])
         IN  IF step.err # "none" THEN [err |-> step.err, patches |-> axesPatches]
             ELSE ArrowLoop(dicts, k + 1, axesPatches \o step.patch)

RECURSIVE RectangleLoop(_, _, _, _)
RectangleLoop(args, dicts, k, axesPatches) ==
    IF k > Len(dicts) THEN [err |-> "none", patches |-> axesPatches]
    ELSE LET step == RectangleStep(args, dicts[k])
         IN  IF step.err # "none" THEN [err |-> step.err, patches |-> axesPatches]
             ELSE RectangleLoop(args, dicts, k + 1, axesPatches \o step.patch)

\* AxesFormatter.add_arrow(x_tail, y_tail, x_head, y_head, dx, dy, fill=True)
add_arrow(args, axesPatches) ==
    IF ~one_is_not_none(<<args.dx, args.x_head>>)
    THEN [err |-> "ValueError", patches |-> axesPatches]
    ELSE IF ~one_is_not_none(<<args.dy, args.y_head>>)
    THEN [err |-> "ValueError", patches |-> axesPatches]
    ELSE ArrowLoop(smart_zip_kwargs(<<Kw("x", args.x_tail), Kw("y", args.y_tail),
                                      Kw("x_head", args.x_head),
                                      Kw("y_head", args.y_head),
                                      Kw("dx", args.dx), Kw("dy", args.dy),
                                      Kw("fill", args.fill)>>),
                   1, axesPatches)

\* AxesFormatter.add_rectangle(width, height, angle, x_left, y_bottom,
\*                             x_center, y_center, fill=True)
add_rectangle(args, axesPatches) ==
    RectangleLoop(args,
                  smart_zip_kwargs(<<Kw("width", args.width), Kw("height", args.height),
                                     Kw("angle", args.angle),
                                     Kw("x_left", args.x_left),
                                     Kw("y_bottom", args.y_bottom),
                                     Kw("x_center", args.x_center),
                                     Kw("y_center", args.y_center),
                                     Kw("fill", args.fill)>>),
                  1, axesPatches)

\* inputs: a coordinate is a number or a list of two numbers
Coordinates == {PyScalar(4), PyList(<<1, 3>>)}
OptionalCoordinates == {PyNone} \cup Coordinates
OptionalScalars == {PyNone, PyScalar(5)}
ArrowArgs ==
    [x_tail : Coordinates, y_tail : {PyScalar(2)},
     x_head : OptionalCoordinates, y_head : OptionalScalars,
     dx : OptionalCoordinates, dy : OptionalScalars, fill : {PyScalar(1)}]
RectangleArgs ==
    [width : {PyScalar(2)}, height : {PyScalar(6)},
     angle : {PyScalar(0), PyScalar(90)},
     x_left : OptionalCoordinates, y_bottom : OptionalScalars,
     x_center : OptionalCoordinates, y_center : OptionalScalars,
     fill : {PyScalar(1)}]

NoShapeCall == [method |-> "none", args |-> <<>>, err |-> "none", before |-> <<>>]
ShapeIdle == patches = <<>> /\ shapeCall = NoShapeCall

(***************************************************************************)
(* TextFormatter and TextListFormatter set_ha / set_va                     *)
(* (text/text_formatter.py, text/text_list_formatter.py).  A Text is       *)
(* [ha, va]; matplotlib's setters are plain assignments here.              *)
(***************************************************************************)
HORIZONTAL_ALIGNMENTS == {"left", "center", "right"}
VERTICAL_ALIGNMENTS == {"top", "center", "bottom", "baseline", "center_baseline"}

\* (mutant of TextFormatter_set_va: the check uses the horizontal alignments)
TextFormatter_set_va_horizontal(text, alignment) ==
    IF alignment \notin HORIZONTAL_ALIGNMENTS
    THEN [err |-> "ValueError", text |-> text]
    ELSE [err |-> "none", text |-> [text EXCEPT !.va = alignment]]

\* TextFormatter.set_ha(alignment) on the wrapped Text
TextFormatter_set_ha(text, alignment) ==
    IF alignment \notin HORIZONTAL_ALIGNMENTS
    THEN [err |-> "ValueError", text |-> text]
    ELSE [err |-> "none", text |-> [text EXCEPT !.ha = alignment]]

\* TextFormatter.set_va(alignment) on the wrapped Text
TextFormatter_set_va(text, alignment) ==
    IF alignment \notin VERTICAL_ALIGNMENTS
    THEN [err |-> "ValueError", text |-> text]
    ELSE [err |-> "none", text |-> [text EXCEPT !.va = alignment]]

\* the loop `for text in self._text_list: text.set_ha(alignment)`, from
\* element i on; an error of an element ends it
RECURSIVE SetHaLoop(_, _, _)
SetHaLoop(list, alignment, i) ==
    IF i > Len(list) THEN [err |-> "none", texts |-> list]
    ELSE LET r == TextFormatter_set_ha(list[i], alignment)
         IN  IF r.err # "none" THEN [err |-> r.err, texts |-> list]
             ELSE SetHaLoop([list EXCEPT ![i] = r.text], alignment, i + 1)

RECURSIVE SetVaLoop(_, _, _)
SetVaLoop(list, alignment, i) ==
    IF i > Len(list) THEN [err |-> "none", texts |-> list]
    ELSE LET r == TextFormatter_set_va(list[i], alignment)
         IN  IF r.err # "none" THEN [err |-> r.err, texts |-> list]
             ELSE SetVaLoop([list EXCEPT ![i] = r.text], alignment, i + 1)

\* (mutant of TextListFormatter_set_ha: no check before the loop, and the
\* elements are set by assignment)
TextListFormatter_set_ha_unchecked(list, alignment) ==
    [err |-> "none", texts |-> [i \in 1..Len(list) |-> [list[i] EXCEPT !.ha = alignment]]]

\* TextListFormatter.set_ha(alignment)
TextListFormatter_set_ha(list, alignment) ==
    IF alignment \notin HORIZONTAL_ALIGNMENTS
    THEN [err |-> "ValueError", texts |-> list]
    ELSE SetHaLoop(list, alignment, 1)

\* TextListFormatter.set_va(alignment)
TextListFormatter_set_va(list, alignment) ==
    IF alignment \notin VERTICAL_ALIGNMENTS
    THEN [err |-> "ValueError", texts |-> list]
    ELSE SetVaLoop(list, alignment, 1)

\* inputs: alignments of both enumerations and of neither
AlignmentInputs == {"left", "center", "top", "baseline", "middle"}
\* a new matplotlib Text
NewText == [ha |-> "left", va |-> "baseline"]

NoAlignCall == [cls |-> "none", method |-> "none", alignment |-> "", index |-> 0,
                err |-> "none", before |-> <<>>]
TextIdle == texts = <<>> /\ alignCall = NoAlignCall

(***************************************************************************)
(* What the public methods of the six formatter classes return.  A method  *)
(* name is <<verb, rest>>, split at its first underscore: set_title_text   *)
(* is <<"set", "title_text">>, wrap is <<"wrap", "">>.  A formatter object *)
(* is [cls, id]; properties and static methods are not listed.             *)
(***************************************************************************)
Verb(verb, rests) == {<<verb, rest>> : rest \in rests}

\* the methods of AxesFormatter whose every path ends in `return self`
AxesFormatter_return_self ==
    Verb("set", {"title_text", "x_label_text", "y_label_text", "text",
        "title_size", "x_label_size", "y_label_size", "axis_label_sizes",
        "font_sizes", "face_color", "frame_color", "title_font_family",
        "x_lim", "y_lim", "x_min", "x_max", "y_min", "y_max", "aspect",
        "anchor", "axis_below"})
    \cup Verb("map", {"title_text", "x_axis_label", "y_axis_label",
        "axis_labels"})
    \cup Verb("wrap", {"title", "x_label", "y_label", "axis_labels"})
    \cup Verb("remove", {"title", "legend", "x_ticks", "y_ticks", "axes_ticks",
        "x_label", "y_label", "axes_labels"})
    \cup Verb("rotate", {"x_label", "y_label"})
    \cup Verb("add", {"h_line", "v_line", "h_lines", "v_lines", "text", "arc",
        "arrow", "circle", "ellipse", "fancy_arrow", "fancy_arrow_patch",
        "fancy_box_patch", "polygon", "rectangle", "regular_polygon",
        "wedge", "v_density", "h_density", "v_bars", "v_pills", "line",
        "major_xy_grid", "minor_xy_grid", "major_x_grid", "minor_x_grid",
        "major_y_grid", "minor_y_grid"})
    \cup Verb("fill", {"between"})
    \cup Verb("show", {"frame", ""})
    \cup Verb("hide", {"frame"})
    \cup Verb("grid", {""})
    \cup Verb("tight", {"layout"})
    \cup Verb("invert", {"x_axis", "y_axis"})
    \cup Verb("save", {""})

\* the methods of AxisFormatter whose every path ends in `return self`
AxisFormatter_return_self ==
    Verb("set", {"label_text", "label_font_family", "label_size",
        "format_integer", "format_currency", "format_percent", "scale",
        "scale_log", "scale_linear", "scale_symmetrical_log", "scale_logit",
        "inverted", "tick_spacing", "min", "max"})
    \cup Verb("replace", {"label_text"})
    \cup Verb("map", {"label_text"})
    \cup Verb("rotate", {"label"})
    \cup Verb("remove", {"label"})
    \cup Verb("wrap", {"label"})
    \cup Verb("invert", {""})
    \cup Verb("keep", {"ticks"})

\* the methods of FigureFormatter whose every path ends in `return self`
FigureFormatter_return_self ==
    Verb("set", {"title", "axes_title_text", "axes_x_label_text",
        "axes_y_label_text", "axes_text", "left_margin", "right_margin",
        "top_margin", "bottom_margin", "horizontal_margin",
        "vertical_margin", "margin", "horizontal_spacing",
        "vertical_spacing", "axes_below", "x_lims", "y_lims", "x_mins",
        "x_maxes", "y_mins", "y_maxes"})
    \cup Verb("map", {"axes_title_text", "x_axis_labels", "y_axis_labels",
        "axis_labels", "x_tick_labels", "y_tick_labels", "tick_labels"})
    \cup Verb("wrap", {"titles", "x_labels", "y_labels", "axes_labels",
        "x_tick_labels", "y_tick_labels", "tick_labels"})
    \cup Verb("remove", {"titles", "legends", "x_ticks", "y_ticks", "axes_ticks",
        "x_labels", "y_labels", "axes_labels"})
    \cup Verb("rotate", {"x_labels", "y_labels", "x_tick_labels",
        "y_tick_labels"})
    \cup Verb("subplots", {"adjust"})
    \cup Verb("grids", {""})
    \cup Verb("tight", {"layout"})
    \cup Verb("save", {""})
    \cup Verb("show", {""})

\* the methods of TextFormatter whose every path ends in `return self`
TextFormatter_return_self ==
    Verb("wrap", {""})
    \cup Verb("rotate", {""})
    \cup Verb("map", {""})
    \cup Verb("remove", {"parenthesized_text"})
    \cup Verb("replace", {""})
    \cup Verb("set", {"text", "size", "size_xx_small", "size_x_small",
        "size_small", "size_medium", "size_large", "size_x_large",
        "size_xx_large", "size_larger", "size_smaller", "font_family",
        "font_family_serif", "font_family_sans_serif",
        "font_family_cursive", "font_family_fantasy",
        "font_family_monospace", "font_family_benton_sans_f",
        "font_family_quarto", "font_family_calibri", "ha", "va"})
    \cup Verb("clear", {""})

\* the methods of LegendFormatter whose every path ends in `return self`
LegendFormatter_return_self ==
    Verb("set", {"location", "location_best", "location_upper_left",
        "location_upper_center", "location_upper_right",
        "location_center_left", "location_center", "location_center_right",
        "location_lower_left", "location_lower_center",
        "location_lower_right", "location_left", "location_right", "alpha",
        "face_color", "edge_color", "frame_on", "z_order", "title_text",
        "title_font_family", "title_font_size", "n_cols", "line_points",
        "scatter_points", "shadow"})
    \cup Verb("recreate", {"legend"})
    \cup Verb("remove", {"entries"})
    \cup Verb("map", {"labels"})

\* the methods of TicksFormatter whose every path ends in `return self`
TicksFormatter_return_self ==
    Verb("reset", {""})
    \cup Verb("set", {"locations", "labels", "direction", "direction_in",
        "direction_out", "direction_in_out", "length", "width", "padding",
        "color", "colors", "z_order", "label_size", "label_color",
        "label_rotation", "grid_color", "grid_alpha", "grid_line_width",
        "grid_line_style"})
    \cup Verb("show", {"top", "bottom", "left", "right", "top_labels",
        "bottom_labels", "left_labels", "right_labels"})
    \cup Verb("wrap", {"label_text"})
    \cup Verb("map", {"label_text", "label_values"})

\* methods that return the result of another method of the same object:
\* set_aspect_equal is `return self.set_aspect('equal')`
Delegates(cls, method) ==
    IF cls = "AxesFormatter" /\ method = <<"set", "aspect_equal">>
    THEN <<"set", "aspect">>
    ELSE IF cls = "AxesFormatter" /\ method \in
            Verb("set", {"anchor_north", "anchor_east", "anchor_south",
                "anchor_west", "anchor_center", "anchor_north_east",
                "anchor_north_west", "anchor_south_east", "anchor_south_west"})
    THEN <<"set", "anchor">>
    ELSE IF cls = "TextFormatter" /\ method \in
            Verb("set", {"ha_left", "ha_center", "ha_right"})
    THEN <<"set", "ha">>
    ELSE IF cls = "TextFormatter" /\ method \in
            Verb("set", {"va_top", "va_center", "va_bottom", "va_baseline",
                "va_center_baseline"})
    THEN <<"set", "va">>
    ELSE <<>>

\* methods that return a value read from the plot
Reads(cls) ==
    IF cls = "AxesFormatter"
    THEN Verb("get", {"x_label_text", "y_label_text", "frame_color",
             "frame_colors", "x_lim", "y_lim", "x_min", "x_max", "x_width",
             "y_height", "y_min", "y_max"})
         \cup {<<"width", "">>, <<"height", "">>}
    ELSE IF cls = "AxisFormatter" THEN Verb("get", {"lim", "min", "max"})
    ELSE IF cls = "TextFormatter" THEN {<<"to", "string">>}
    ELSE IF cls = "TicksFormatter" THEN Verb("get", {"labels", "label_values"})
    ELSE {}

FormatterClasses ==
    {"AxesFormatter", "AxisFormatter", "FigureFormatter", "TextFormatter",
     "LegendFormatter", "TicksFormatter"}

ReturnSelf(cls) ==
    CASE cls = "AxesFormatter" -> AxesFormatter_return_self
      [] cls = "AxisFormatter" -> AxisFormatter_return_self
      [] cls = "FigureFormatter" -> FigureFormatter_return_self
      [] cls = "TextFormatter" -> TextFormatter_return_self
      [] cls = "LegendFormatter" -> LegendFormatter_return_self
      [] cls = "TicksFormatter" -> TicksFormatter_return_self
      [] OTHER -> {}

Delegating(cls) ==
    IF cls = "AxesFormatter"
    THEN Verb("set", {"aspect_equal", "anchor_north", "anchor_east",
             "anchor_south", "anchor_west", "anchor_center",
             "anchor_north_east", "anchor_north_west", "anchor_south_east",
             "anchor_south_west"})
    ELSE IF cls = "TextFormatter"
    THEN Verb("set", {"ha_left", "ha_center", "ha_right", "va_top",
             "va_center", "va_bottom", "va_baseline", "va_center_baseline"})
    ELSE {}

\* AxesFormatter's methods that build another formatter
Builds(cls) ==
    IF cls = "AxesFormatter"
    THEN {<<"add", "legend">>, <<"twin", "x">>, <<"twin", "y">>}
    ELSE {}

PublicMethods(cls) == ReturnSelf(cls) \cup Delegating(cls) \cup Reads(cls) \cup Builds(cls)

NoFormatter == [cls |-> "none", id |-> 0]
PlotValue == [cls |-> "value", id |-> 0]
IsFormatter(obj) == obj.cls \in FormatterClasses

\* (mutant of ReturnOf: remove_legend ends without `return self`)
ReturnOfForgotten(obj, method) ==
    IF method = <<"remove", "legend">> THEN [cls |-> "NoneType", id |-> 0]
    ELSE IF method \in ReturnSelf(obj.cls) \cup Delegating(obj.cls) THEN obj
    ELSE IF method = <<"add", "legend">>
    THEN [cls |-> "LegendFormatter", id |-> obj.id]
    ELSE IF method \in Builds(obj.cls) THEN [cls |-> "AxesFormatter", id |-> obj.id + 1]
    ELSE PlotValue

\* the object a call of the method on obj returns: obj itself, the
\* LegendFormatter of the legend add_legend made, the AxesFormatter of the
\* Axes twin_x / twin_y made, or a value
ReturnOf(obj, method) ==
    IF method \in ReturnSelf(obj.cls) THEN obj
    ELSE IF method \in Delegating(obj.cls)
    THEN (IF Delegates(obj.cls, method) \in ReturnSelf(obj.cls) THEN obj ELSE PlotValue)
    ELSE IF method = <<"add", "legend">>
    THEN [cls |-> "LegendFormatter", id |-> obj.id]
    ELSE IF method \in Builds(obj.cls) THEN [cls |-> "AxesFormatter", id |-> obj.id + 1]
    ELSE PlotValue

NoChainCall == [obj |-> NoFormatter, method |-> <<>>, ret |-> NoFormatter]
ChainIdle == receiver = NoFormatter /\ chainCall = NoChainCall

(***************************************************************************)
(* save_plot (io_utils.py).  A str is a sequence of one-character strings. *)
(***************************************************************************)
FILE_TYPES ==
    {<<"e", "p", "s">>, <<"j", "p", "g">>, <<"j", "p", "e", "g">>,
     <<"p", "d", "f">>, <<"p", "g", "f">>, <<"p", "n", "g">>, <<"p", "s">>,
     <<"r", "a", "w">>, <<"r", "g", "b", "a">>, <<"s", "v", "g">>,
     <<"s", "v", "g", "z">>, <<"t", "i", "f">>, <<"t", "i", "f", "f">>}

\* str.endswith
EndsWith(str, suffix) ==
    /\ Len(suffix) <= Len(str)
    /\ SubSeq(str, Len(str) - Len(suffix) + 1, Len(str)) = suffix

\* str.split('.')[-1]: what follows the last '.'
RECURSIVE SplitLast(_)
SplitLast(str) ==
    IF str = <<>> THEN <<>>
    ELSE IF str[Len(str)] = "." THEN <<>>
    ELSE Append(SplitLast(SubSeq(str, 1, Len(str) - 1)), str[Len(str)])

\* (mutant of HasFileType: endswith(ft), without the '.')
HasFileTypeNoDot(str_fp) ==
    /\ \E i \in 1..Len(str_fp) : str_fp[i] = "."
    /\ \E ft \in FILE_TYPES : EndsWith(str_fp, ft)

\* '.' in str_fp and any(str_fp.endswith(f'.{ft}') for ft in FILE_TYPES)
HasFileType(str_fp) ==
    /\ \E i \in 1..Len(str_fp) : str_fp[i] = "."
    /\ \E ft \in FILE_TYPES : EndsWith(str_fp, <<".">> \o ft)

\* the file_type used: the one given, or the one detected, or png
FileTypeUsed(file_path, file_type) ==
    IF file_type # None THEN file_type.v
    ELSE IF HasFileType(file_path) THEN SplitLast(file_path)
    ELSE <<"p", "n", "g">>

\* (mutant of SavefigName: the extension is appended to every path)
SavefigNameAppended(file_path, file_type) ==
    file_path \o <<".">> \o file_type

\* the first argument of fig.savefig
SavefigName(file_path, file_type) ==
    IF EndsWith(file_path, <<".">> \o file_type) THEN file_path
    ELSE file_path \o <<".">> \o file_type

PlotObjectTypes == {"Axes", "Figure", "JointGrid", "PairGrid"}

\* str.lower, on the letters of the inputs
Lower(str) ==
    [i \in 1..Len(str) |->
        CASE str[i] = "P" -> "p" [] str[i] = "N" -> "n" [] str[i] = "G" -> "g"
          [] OTHER -> str[i]]

\* Figure.savefig(fname): the format is the lower-cased extension of fname;
\* a file of that name is written when the format is supported, which
\* the formats of FILE_TYPES are and others may or may not be
savefig(fname) ==
    IF Lower(SplitLast(fname)) \in FILE_TYPES /\ Len(SplitLast(fname)) < Len(fname)
    THEN {"saved"}
    ELSE {"saved", "ValueError"}

\* save_plot: the name passed to savefig, or the error raised before
save_plot(plot_object, file_path, file_type) ==
    IF plot_object \notin PlotObjectTypes
    THEN [err |-> "ValueError", fname |-> <<>>]
    ELSE [err |-> "none",
          fname |-> SavefigName(file_path, FileTypeUsed(file_path, file_type))]

\* inputs
FilePaths ==
    LET endings ==
            {<<>>, <<".">>, <<".", "p", "n", "g">>, <<"p", "n", "g">>,
             <<".", "p", "s">>, <<".", "e", "p", "s">>, <<".", "s", "v", "g">>,
             <<".", "s", "v", "g", "z">>, <<".", "j", "p", "g">>,
             <<".", "b", "m", "p">>, <<".", "P", "N", "G">>,
             <<".", "p", "n", "g", ".", "p", "n", "g">>}
    IN  {stem \o ending : stem \in SeqsUpTo({"a", "."}, 0, MaxStemLen),
                          ending \in endings}
FileTypeArgs ==
    {None} \cup {Some(ft) : ft \in FILE_TYPES}
    \cup {Some(<<"P", "N", "G">>), Some(<<"b", "m", "p">>),
          Some(<<".", "p", "n", "g">>)}

NoSaveCall == [called |-> FALSE, plot_object |-> "", file_path |-> <<>>,
               file_type |-> None, err |-> "none", fname |-> <<>>, saved |-> FALSE]
SaveIdle == saveCall = NoSaveCall

(***************************************************************************)
(* The tick label functions of AxisFormatter.set_format_integer and        *)
(* set_format_currency (axes/axis_formatter.py).  A number is              *)
(* [neg, m, k], the decimal -m * 10^k or m * 10^k; the floats of the code  *)
(* print as these decimals, having few significant digits and at most one  *)
(* digit after the point before they are divided.  A label is a sequence   *)
(* of one-character strings.                                               *)
(***************************************************************************)
\* the same number with no trailing zero after the decimal point
RECURSIVE Normalised(_)
Normalised(num) ==
    IF num.k < 0 /\ num.m % 10 = 0
    THEN Normalised([num EXCEPT !.m = num.m \div 10, !.k = num.k + 1])
    ELSE num

\* num == int(num)
IsWhole(num) == Normalised(num).k >= 0

\* (mutant of AtLeastPow10: number > 10 ** power)
MoreThanPow10(num, power) ==
    /\ ~num.neg /\ num.m > 0
    /\ IF num.k > power THEN TRUE
       ELSE IF power - num.k > 9 THEN FALSE
       ELSE num.m > (10 ^ (power - num.k))

\* number >= 10 ** power
AtLeastPow10(num, power) ==
    /\ ~num.neg /\ num.m > 0
    /\ IF num.k >= power THEN TRUE
       ELSE IF power - num.k > 9 THEN FALSE
       ELSE num.m >= (10 ^ (power - num.k))

\* number / 10 ** power
DividedByPow10(num, power) == Normalised([num EXCEPT !.k = num.k - power])

\* str of a non-negative int
RECURSIVE Digits(_)
Digits(n) ==
    LET chars == <<"0", "1", "2", "3", "4", "5", "6", "7", "8", "9">>
    IN  IF n < 10 THEN <<chars[n + 1]>>
        ELSE Append(Digits(n \div 10), chars[(n % 10) + 1])

Zeros(n) == [i \in 1..n |-> "0"]

\* the digits of the whole part of |num|
WholeDigits(num) ==
    IF num.m = 0 THEN <<"0">>
    ELSE IF num.k >= 0 THEN Digits(num.m) \o Zeros(num.k)
    ELSE Digits(num.m \div (10 ^ (-num.k)))

\* the digits after the decimal point of a normalised number that is not whole
FractionDigits(num) ==
    LET digits == Digits(num.m % (10 ^ (-num.k)))
    IN  Zeros(-num.k - Len(digits)) \o digits

\* the ',' option of the format specification: a comma between thousands
RECURSIVE WithCommas(_)
WithCommas(digits) ==
    IF Len(digits) <= 3 THEN digits
    ELSE WithCommas(SubSeq(digits, 1, Len(digits) - 3))
             \o <<",">> \o SubSeq(digits, Len(digits) - 2, Len(digits))

Sign(num) == IF num.neg /\ num.m > 0 THEN <<"-">> ELSE <<>>

\* f'{int(number):,}': number truncated to an int
FormatTruncated(num) ==
    LET digits == WholeDigits(num)
    IN  (IF digits = <<"0">> THEN <<>> ELSE Sign(num)) \o WithCommas(digits)

\* f'{num:,}' after `if num == int(num): num = int(num)`: an int, or the
\* shortest decimal that reads back as the float
FormatGeneral(number) ==
    LET num == Normalised(number)
    IN  IF num.k >= 0 THEN Sign(num) \o WithCommas(WholeDigits(num))
        ELSE Sign(num) \o WithCommas(WholeDigits(num)) \o <<".">> \o FractionDigits(num)

\* the whole part of |num| rounded half to even, for a number with one
\* digit after the point
RoundedHalfEven(num) ==
    LET whole == num.m \div 10
        digit == num.m % 10
    IN  IF digit > 5 \/ (digit = 5 /\ whole % 2 = 1) THEN whole + 1 ELSE whole

\* f'{number:,.{num_decimals}f}' for a number with at most one digit after
\* the point
FormatFixed(number, num_decimals) ==
    LET num == Normalised(number)
    IN  IF num.k >= 0
        THEN Sign(num) \o WithCommas(WholeDigits(num))
                 \o (IF num_decimals = 0 THEN <<>> ELSE <<".">> \o Zeros(num_decimals))
        ELSE IF num_decimals = 0
        THEN Sign(num) \o WithCommas(Digits(RoundedHalfEven(num)))
        ELSE Sign(num) \o WithCommas(WholeDigits(num)) \o <<".">>
                 \o FractionDigits(num) \o Zeros(num_decimals - 1)

Powers == <<12, 9, 6, 3>>
Abbrevs == <<"T", "B", "M", "K">>

\* the loop over zip([12, 9, 6, 3], ['T', 'B', 'M', 'K']) from pair i on:
\* the label of the first power reached, or <<>> when none is
RECURSIVE KmbtLoop(_, _)
KmbtLoop(number, i) ==
    IF i > Len(Powers) THEN <<>>
    ELSE IF AtLeastPow10(number, Powers[i])
    THEN FormatGeneral(DividedByPow10(number, Powers[i])) \o <<Abbrevs[i]>>
    ELSE KmbtLoop(number, i + 1)

\* to_integer of set_format_integer; a tick is a number or the empty text
to_integer(tick, kmbt) ==
    IF tick.empty THEN <<>>
    ELSE IF ~kmbt THEN FormatTruncated(tick.number)
    ELSE IF KmbtLoop(tick.number, 1) # <<>> THEN KmbtLoop(tick.number, 1)
    ELSE FormatGeneral(tick.number)

\* to_currency of set_format_currency
to_currency(tick, symbol, num_decimals, kmbt) ==
    IF tick.empty THEN <<>>
    ELSE IF ~kmbt THEN symbol \o FormatFixed(tick.number, num_decimals)
    ELSE IF KmbtLoop(tick.number, 1) # <<>> THEN symbol \o KmbtLoop(tick.number, 1)
    ELSE symbol \o FormatFixed(tick.number, num_decimals)

\* inputs
Ticks ==
    LET mantissas == 0..MaxMantissa \cup {105, 999, 1234}
    IN  {[empty |-> TRUE, number |-> [neg |-> FALSE, m |-> 0, k |-> 0]]}
        \cup {[empty |-> FALSE, number |-> [neg |-> FALSE, m |-> m, k |-> k]] :
                 m \in mantissas, k \in -1..MaxExponent}
        \cup {[empty |-> FALSE, number |-> [neg |-> TRUE, m |-> m, k |-> k]] :
                 m \in mantissas \ {0}, k \in -1..MaxExponent}

NoTickLabel == [tick |-> [empty |-> TRUE, number |-> [neg |-> FALSE, m |-> 0, k |-> 0]],
                kmbt |-> FALSE, symbol |-> <<>>, num_decimals |-> 0,
                integer |-> None, currency |-> None, idle |-> TRUE]
TickIdle == tickLabel = NoTickLabel

(***************************************************************************)
(* wrap_text (text/text_utils.py) and textwrap.wrap, which it calls with   *)
(* the defaults break_long_words and break_on_hyphens.  A text is a        *)
(* sequence of one-character strings without whitespace; a matplotlib Text *)
(* object is the value [kind |-> "text"] holding its characters.           *)
(***************************************************************************)
MaxTextLen == 5
MaxWidth == 4
MaxLabelWidth == 2

NL == "\n"
TextChars == {"a", "-"}
PyText(chars) == [kind |-> "text", items |-> chars]
ValueError == [kind |-> "ValueError", items |-> <<>>]

\* the character at the 0-based position k is a word character / a hyphen
IsWordChar(t, k) == k >= 0 /\ k < Len(t) /\ t[k + 1] # "-"
IsHyphen(t, k) == k >= 0 /\ k < Len(t) /\ t[k + 1] = "-"

\* the first position at or after r that holds no hyphen
RECURSIVE HyphenRunEnd(_, _)
HyphenRunEnd(t, r) == IF IsHyphen(t, r) THEN HyphenRunEnd(t, r + 1) ELSE r

\* wordsep_re: an em-dash (two hyphens or more) between word characters
EmDash(t, k) ==
    /\ IsWordChar(t, k - 1)
    /\ IsHyphen(t, k)
    /\ HyphenRunEnd(t, k) - k >= 2
    /\ IsWordChar(t, HyphenRunEnd(t, k))

\* wordsep_re: a hyphen after which a hyphenated word may be broken
HyphenBreak(t, j) ==
    /\ IsHyphen(t, j)
    /\ \/ IsWordChar(t, j - 1) /\ IsWordChar(t, j - 2)
       \/ IsWordChar(t, j - 1) /\ IsHyphen(t, j - 2) /\ IsWordChar(t, j - 3)
    /\ \/ IsWordChar(t, j + 1) /\ IsWordChar(t, j + 2)
       \/ IsWordChar(t, j + 1) /\ IsHyphen(t, j + 2) /\ IsWordChar(t, j + 3)

\* wordsep_re: the end of the shortest word that starts before j
RECURSIVE WordEnd(_, _)
WordEnd(t, j) ==
    IF HyphenBreak(t, j) THEN j + 1
    ELSE IF j = Len(t) THEN j
    ELSE IF EmDash(t, j) THEN j
    ELSE WordEnd(t, j + 1)

\* TextWrapper._split: the chunks of t from position i on
RECURSIVE Split(_, _)
Split(t, i) ==
    IF i >= Len(t) THEN <<>>
    ELSE LET m == IF EmDash(t, i) THEN HyphenRunEnd(t, i) ELSE WordEnd(t, i + 1)
         IN  <<SubSeq(t, i + 1, m)>> \o Split(t, m)

\* TextWrapper._wrap_chunks, inner loop: chunks are added while they fit
RECURSIVE FillLine(_, _, _)
FillLine(cur, chunks, width) ==
    IF chunks # <<>> /\ Len(cur) + Len(Head(chunks)) <= width
    THEN FillLine(cur \o Head(chunks), Tail(chunks), width)
    ELSE [cur |-> cur, chunks |-> chunks]

\* chunk.rfind('-', 0, space): the last hyphen before space, or -1
RECURSIVE RFindHyphen(_, _)
RFindHyphen(chunk, space) ==
    IF space <= 0 THEN -1
    ELSE IF IsHyphen(chunk, space - 1) THEN space - 1
    ELSE RFindHyphen(chunk, space - 1)

\* TextWrapper._handle_long_word: how much of a chunk wider than the line
\* goes on the current line
LongWordEnd(chunk, space) ==
    LET hyphen == RFindHyphen(chunk, IF space < Len(chunk) THEN space ELSE Len(chunk))
    IN  IF /\ Len(chunk) > space
           /\ hyphen > 0
           /\ \E k \in 0..(hyphen - 1) : ~IsHyphen(chunk, k)
        THEN hyphen + 1
        ELSE space

\* TextWrapper._wrap_chunks
RECURSIVE WrapChunks(_, _)
WrapChunks(chunks, width) ==
    IF chunks = <<>> THEN <<>>
    ELSE LET filled == FillLine(<<>>, chunks, width)
             long == filled.chunks # <<>> /\ Len(Head(filled.chunks)) > width
             end == LongWordEnd(Head(filled.chunks), width - Len(filled.cur))
             cur == IF long
                    THEN filled.cur \o SubSeq(Head(filled.chunks), 1, end)
                    ELSE filled.cur
             rest == IF long
                     THEN <<SubSeq(Head(filled.chunks), end + 1,
                                   Len(Head(filled.chunks)))>>
                          \o Tail(filled.chunks)
                     ELSE filled.chunks
         IN  (IF cur # <<>> THEN <<cur>> ELSE <<>>) \o WrapChunks(rest, width)

\* textwrap.wrap with break_long_words off: no chunk is cut
wrapUnbroken(text, width) == IF text = <<>> THEN <<>> ELSE <<text>>
\* textwrap.wrap(text, width); a width below 1 raises ValueError
wrap(text, width) == WrapChunks(Split(text, 0), width)

\* '\n'.join(lines)
RECURSIVE JoinLines(_)
JoinLines(lines) ==
    IF lines = <<>> THEN <<>>
    ELSE IF Len(lines) = 1 THEN lines[1]
    ELSE lines[1] \o <<NL>> \o JoinLines(Tail(lines))

\* max_width or MAX_LABEL_WIDTH: None and 0 are falsy
MaxChars(max_width, label_width) ==
    IF max_width.some /\ max_width.v # 0 THEN max_width.v ELSE label_width

RECURSIVE wrap_text(_, _, _)
RECURSIVE WrapEach(_, _, _)
\* [wrap_text(t, max_width) for t in text]: the first error ends the list
WrapEach(items, max_width, label_width) ==
    IF items = <<>> THEN PyList(<<>>)
    ELSE LET first == wrap_text(Head(items), max_width, label_width)
             others == WrapEach(Tail(items), max_width, label_width)
         IN  IF first = ValueError \/ others = ValueError THEN ValueError
             ELSE PyList(<<first>> \o others.items)

wrap_text(text, max_width, label_width) ==
    LET max_chars == MaxChars(max_width, label_width)
    IN  IF text.kind \in {"text", "str"}
        THEN IF max_chars <= 0 THEN ValueError
             ELSE PyStr(JoinLines(wrap(text.items, max_chars)))
        ELSE IF text.kind \in {"list", "tuple"}
        THEN WrapEach(text.items, max_width, label_width)
        ELSE ValueError

\* inputs
Texts(n) == SeqsUpTo(TextChars, 0, n)
WrapTexts ==
    {PyStr(t) : t \in Texts(MaxTextLen)}
    \cup {PyText(t) : t \in Texts(MaxTextLen)}
    \cup {PyList(l) : l \in SeqsUpTo({PyStr(t) : t \in Texts(MaxTextLen - 2)}
                                     \cup {PyText(<<"a", "-", "a", "a">>),
                                           PyScalar(7)}, 0, 2)}
    \cup {PyScalar(7), PyNone}
\* max_width is None, or an int
NoWidth == [some |-> FALSE, v |-> 0]
WrapWidths == {NoWidth, Some(-1)} \cup {Some(w) : w \in 0..MaxWidth}

NoWrapCall == [text |-> PyNone, max_width |-> NoWidth, label_width |-> 1,
               called |-> FALSE, result |-> PyNone]
WrapIdle == wrapCall = NoWrapCall

(***************************************************************************)
(* map_text (text/text_utils.py).  A dict is a function from its keys, a   *)
(* callable is the function it computes.                                   *)
(***************************************************************************)
MaxMapListLen == 2

TypeError == [kind |-> "TypeError", items |-> <<>>]
PyMapping(items) == [kind |-> "dict", items |-> items]
PyCallable == [kind |-> "callable", items |-> <<>>]
\* the callable of the inputs: it doubles its argument
Call(mapping, chars) == PyStr(chars \o chars)

\* a dict that never replaces
LookupKept(mapping, chars) == PyStr(chars)
\* mapping[text] if text in mapping.keys() else text
Lookup(mapping, chars) ==
    IF chars \in DOMAIN mapping.items THEN mapping.items[chars] ELSE PyStr(chars)

RECURSIVE map_text(_, _)
RECURSIVE MapEach(_, _)
\* [map_text(t, mapping) for t in text]: the first error ends the list
MapEach(items, mapping) ==
    IF items = <<>> THEN PyList(<<>>)
    ELSE LET first == map_text(Head(items), mapping)
             others == MapEach(Tail(items), mapping)
         IN  IF first = TypeError \/ others = TypeError THEN TypeError
             ELSE PyList(<<first>> \o others.items)

map_text(text, mapping) ==
    IF text.kind \in {"str", "text"}
    THEN IF mapping.kind = "none" THEN PyStr(text.items)
         ELSE IF mapping.kind = "dict" THEN Lookup(mapping, text.items)
         ELSE IF mapping.kind = "callable" THEN Call(mapping, text.items)
         ELSE TypeError
    ELSE IF text.kind \in {"list", "tuple"} THEN MapEach(text.items, mapping)
    ELSE TypeError

\* inputs
MapKeys == {<<>>, <<"a">>, <<"b">>}
MapValues == {PyStr(<<"A">>), PyStr(<<"b">>), PyScalar(1)}
MapStrings == MapKeys \cup {<<"c">>}
MapTexts ==
    {PyStr(t) : t \in MapStrings}
    \cup {PyText(t) : t \in MapStrings}
    \cup {PyList(l) : l \in SeqsUpTo({PyStr(t) : t \in MapStrings}
                                     \cup {PyText(<<"a">>)}, 0, MaxMapListLen)}
    \cup {PyScalar(7)}
Mappings ==
    {PyMapping(f) : f \in UNION {[keys -> MapValues] : keys \in SUBSET MapKeys}}
    \cup {PyNone, PyCallable, PyScalar(7)}

NoMapCall == [text |-> PyNone, mapping |-> PyNone, called |-> FALSE,
              result |-> PyNone]
MapIdle == mapCall = NoMapCall

(***************************************************************************)
(* FigureFormatter (figures/figure_formatter.py) and AxesFormatterArray    *)
(* (axes/axes_formatter_array.py).  An Axes is a number; a Figure is the   *)
(* list figure.axes with the geometry of its grid; a numpy array is        *)
(* [ndim, shape, rows]: rows holds the elements of a 1-D array, or the     *)
(* rows of a 2-D array.                                                    *)
(***************************************************************************)
MaxRows == 2
MaxCols == 3

share_values == {"all", "row", "col", "none"}

Array1(items) == [ndim |-> 1, shape |-> <<Len(items)>>, rows |-> items]
Array2(n_rows, n_cols, rows) ==
    [ndim |-> 2, shape |-> <<n_rows, n_cols>>, rows |-> rows]
NoArray == [ndim |-> 0, shape |-> <<>>, rows |-> <<>>]

\* numpy.reshape(axes_list, (n_rows, n_cols), order='F')
reshape_columns(list, n_rows, n_cols) ==
    Array2(n_rows, n_cols,
           [row \in 1..n_rows |->
               [col \in 1..n_cols |-> list[(col - 1) * n_rows + row]]])
\* numpy.reshape(axes_list, (n_rows, n_cols)): C order
reshape(list, n_rows, n_cols) ==
    Array2(n_rows, n_cols,
           [row \in 1..n_rows |->
               [col \in 1..n_cols |-> list[(row - 1) * n_cols + col]]])

\* ndarray.flat: the elements in C order
RECURSIVE Concat(_)
Concat(rows) == IF rows = <<>> THEN <<>> ELSE Head(rows) \o Concat(Tail(rows))
Flat(array) == IF array.ndim = 1 THEN array.rows ELSE Concat(array.rows)
\* (mutant of Size: the length of the first axis, as len() gives it)
SizeOfFirstAxis(array) == array.shape[1]

\* ndarray.size
Size(array) == Len(Flat(array))

\* plt.subplots(nrows, ncols) with squeeze: one Axes, a 1-D or a 2-D array of
\* the Axes 1..nrows*ncols, made row by row
subplots(n_rows, n_cols) ==
    LET axes_list == [k \in 1..(n_rows * n_cols) |-> k]
    IN  IF n_rows = 1 /\ n_cols = 1
        THEN [single |-> 1, array |-> NoArray, list |-> axes_list]
        ELSE IF n_rows = 1 \/ n_cols = 1
        THEN [single |-> 0, array |-> Array1(axes_list), list |-> axes_list]
        ELSE [single |-> 0, array |-> reshape(axes_list, n_rows, n_cols),
              list |-> axes_list]

\* a FigureFormatter: self._figure (its Axes), self._axes, self._has_array
NoFigureFormatter ==
    [err |-> "unbuilt", figure |-> <<>>, single |-> 0, array |-> NoArray,
     has_array |-> FALSE]

\* FigureFormatter(fig): fig.axes is axes_list, its grid is n_rows x n_cols
FigureFormatter_from_figure(axes_list, n_rows, n_cols) ==
    IF axes_list = <<>>
    THEN [NoFigureFormatter EXCEPT !.err = "IndexError"]
    ELSE IF Len(axes_list) # n_rows * n_cols
    THEN [NoFigureFormatter EXCEPT !.err = "ValueError", !.figure = axes_list]
    ELSE [err |-> "none", figure |-> axes_list, single |-> 0,
          array |-> reshape(axes_list, n_rows, n_cols), has_array |-> TRUE]

\* FigureFormatter(axes)
FigureFormatter_from_axes(axes) ==
    [err |-> "none", figure |-> <<axes>>, single |-> axes, array |-> NoArray,
     has_array |-> FALSE]

\* FigureFormatter(n_rows=..., n_cols=..., share_x=..., share_y=...)
FigureFormatter_new(n_rows, n_cols, share_x, share_y) ==
    IF share_x \notin share_values \/ share_y \notin share_values
    THEN [NoFigureFormatter EXCEPT !.err = "ValueError"]
    ELSE LET made == subplots(n_rows, n_cols)
         IN  [err |-> "none", figure |-> made.list, single |-> made.single,
              array |-> made.array, has_array |-> made.single = 0]

AxesFormatter(axes) == [cls |-> "AxesFormatter", axes |-> axes]

\* AxesFormatterArray(axes): an AxesFormatter for each Axes, in its place
AxesFormatterArray_init(axes) ==
    IF axes.ndim = 1
    THEN Array1([i \in 1..axes.shape[1] |-> AxesFormatter(axes.rows[i])])
    ELSE Array2(axes.shape[1], axes.shape[2],
                [i \in 1..axes.shape[1] |->
                    [j \in 1..axes.shape[2] |-> AxesFormatter(axes.rows[i][j])]])

\* FigureFormatter.multi (with an array of Axes)
multi(formatter) == AxesFormatterArray_init(formatter.array)
\* FigureFormatter.single (with one Axes)
single(formatter) == AxesFormatter(formatter.single)

\* text(...): a str, a list of str, a function of (row, col), a function of
\* the flat index, or another object.  A title is the tuple that tells how
\* it was made.
TextStr == [kind |-> "str", len |-> 0]
TextList(len) == [kind |-> "list", len |-> len]
TextOfRowCol == [kind |-> "callable", len |-> 2]
TextOfIndex == [kind |-> "callable", len |-> 1]
TextOther == [kind |-> "int", len |-> 0]
\* calling the function with the arguments args: too many or too few raise
CallSetter(text, args) ==
    IF Len(args) # text.len THEN <<"TypeError">> ELSE <<"value">> \o args

\* the calls method(axf, string) of one run, and the exception that ended it
Outcome(calls, err) == [calls |-> calls, err |-> err]
SetCall(axf, string) == [axes |-> axf.axes, string |-> string]

\* for row in range(shape[0]): for col in range(shape[1]): ... until an
\* exception; shape[1] of a 1-D array raises IndexError
RECURSIVE RowColLoop(_, _, _, _, _)
RowColLoop(array, text, row, col, calls) ==
    IF row >= array.shape[1] THEN Outcome(calls, "none")
    ELSE IF array.ndim = 1 THEN Outcome(calls, "IndexError")
    ELSE IF col >= array.shape[2] THEN RowColLoop(array, text, row + 1, 0, calls)
    ELSE LET string == CallSetter(text, <<row, col>>)
         IN  IF string = <<"TypeError">> THEN Outcome(calls, "TypeError")
             ELSE RowColLoop(array, text, row, col + 1,
                             Append(calls, SetCall(array.rows[row + 1][col + 1],
                                                   string)))

\* for a, axf in enumerate(self.multi.flat): method(axf, text(a))
RECURSIVE FlatLoop(_, _, _, _)
FlatLoop(flat, text, a, calls) ==
    IF a >= Len(flat) THEN Outcome(calls, "none")
    ELSE LET string == CallSetter(text, <<a>>)
         IN  IF string = <<"TypeError">> THEN Outcome(calls, "TypeError")
             ELSE FlatLoop(flat, text, a + 1,
                           Append(calls, SetCall(flat[a + 1], string)))

\* the callable branch without the loop over rows and columns
CallableFlatOnly(formatter, text) ==
    FlatLoop(Flat(multi(formatter)), text, 0, <<>>)
\* the callable branch: try the rows and columns, except TypeError: the
\* flat index
CallableBranch(formatter, text) ==
    LET tried == RowColLoop(multi(formatter), text, 0, 0, <<>>)
    IN  IF tried.err = "TypeError"
        THEN FlatLoop(Flat(multi(formatter)), text, 0, tried.calls)
        ELSE tried

set_text_property(formatter, text) ==
    IF ~formatter.has_array
    THEN IF text.kind # "str" THEN Outcome(<<>>, "TypeError")
         ELSE Outcome(<<SetCall(single(formatter), <<"str">>)>>, "none")
    ELSE LET flat == Flat(multi(formatter))
         IN  IF text.kind = "str"
             THEN Outcome([k \in 1..Len(flat) |-> SetCall(flat[k], <<"str">>)],
                          "none")
             ELSE IF text.kind = "list"
             THEN IF text.len # Size(multi(formatter))
                  THEN Outcome(<<>>, "ValueError")
                  ELSE Outcome([k \in 1..Len(flat) |->
                                   SetCall(flat[k], <<"list", k - 1>>)], "none")
             ELSE IF text.kind = "callable" THEN CallableBranch(formatter, text)
             ELSE Outcome(<<>>, "TypeError")

\* the titles after the calls method(axf, string), in order
RECURSIVE TitlesAfter(_, _)
TitlesAfter(before, calls) ==
    IF calls = <<>> THEN before
    ELSE TitlesAfter([before EXCEPT ![Head(calls).axes] = Head(calls).string],
                     Tail(calls))

\* inputs
MaxAxes == MaxRows * MaxCols
Rotated(n, by) == [k \in 1..n |-> ((k + by - 1) % n) + 1]
AxesLists == {<<>>} \cup {Rotated(n, by) : n \in 1..MaxAxes, by \in 0..1}
ShareArgs == {"none", "each"}
TextSetters ==
    {TextStr, TextOfRowCol, TextOfIndex, TextOther}
    \cup {TextList(len) : len \in 1..MaxAxes}
NoTitles == [axes \in 1..MaxAxes |-> <<>>]
NoSetTextCall == [text |-> TextOther, calls |-> <<>>, err |-> "uncalled"]
FigureIdle ==
    /\ figFormatter = NoFigureFormatter
    /\ titles = NoTitles
    /\ setTextCall = NoSetTextCall

(***************************************************************************)
(* remove_parenthesized_text (text/text_utils.py): its while loop, one     *)
(* test of the condition and one pass of the body at a time.               *)
(***************************************************************************)
MaxParenLen == 4
MaxGrownLen == 6

\* char in text
Contains(text, char) == \E k \in 1..Len(text) : text[k] = char
\* text.index(char), 0-based, for a text that contains char
Index(text, char) ==
    (CHOOSE k \in 1..Len(text) :
        text[k] = char /\ \A before \in 1..(k - 1) : text[before] # char) - 1

\* the condition of the while loop
LoopCondition(text) == Contains(text, "(") /\ Contains(text, ")")
\* text[:l_pos] + text[r_pos + 1:]
Spliced(text, l_pos, r_pos) ==
    SubSeq(text, 1, l_pos) \o SubSeq(text, r_pos + 2, Len(text))
\* the body of the while loop
LoopBody(text) == Spliced(text, Index(text, "("), Index(text, ")"))

\* inputs
ParenChars == {"a", "(", ")"}
ParenTexts ==
    {PyStr(t) : t \in SeqsUpTo(ParenChars, 0, MaxParenLen)}
    \cup {PyText(t) : t \in SeqsUpTo(ParenChars, 0, MaxParenLen)}
NoParenLoop == [input |-> PyNone, text |-> <<>>, pc |-> "idle"]
ParenIdle == parenLoop = NoParenLoop

(***************************************************************************)
(* The legend of an Axes: AxesFormatter.add_legend, remove_legend,         *)
(* set_font_sizes(legend=...) (axes/axes_formatter.py) and LegendFormatter *)
(* (legend/legend_formatter.py).  A Legend is [id, handles, labels, loc]:  *)
(* every Legend matplotlib makes has a new id; a handle is the number of   *)
(* the artist it stands for.                                               *)
(***************************************************************************)
MaxEntries == 3
MaxIndices == 2
MaxLegends == 3

NoLegend == [id |-> 0, handles |-> <<>>, labels |-> <<>>, loc |-> "best"]
Legend(id, handles, labels, loc) ==
    [id |-> id, handles |-> handles, labels |-> labels, loc |-> loc]

\* an argument left out of recreate_legend
NoHandles == [some |-> FALSE, v |-> <<>>]
NoLocation == [some |-> FALSE, v |-> ""]

\* zip(handles, labels) stops with the shorter list
Shorter(a, b) == IF Len(a) < Len(b) THEN Len(a) ELSE Len(b)
\* Axes.legend(handles=..., labels=..., loc=...): the Legend it makes
Axes_legend(id, handles, labels, loc) ==
    Legend(id, SubSeq(handles, 1, Shorter(handles, labels)),
           SubSeq(labels, 1, Shorter(handles, labels)), loc)
\* Axes.get_legend_handles_labels(): the labelled artists of the Axes
Axes_handles(artists) == [k \in 1..Len(artists) |-> k]

\* sorted(indices, reverse=True)
RECURSIVE SortedReverse(_)
SortedReverse(indices) ==
    IF indices = <<>> THEN <<>>
    ELSE LET largest == CHOOSE k \in 1..Len(indices) :
                            \A j \in 1..Len(indices) : indices[j] <= indices[k]
         IN  <<indices[largest]>>
             \o SortedReverse(SubSeq(indices, 1, largest - 1)
                              \o SubSeq(indices, largest + 1, Len(indices)))

\* list.pop(index) for 0 <= index < len(list): the list left
Pop(list, index) == SubSeq(list, 1, index) \o SubSeq(list, index + 2, Len(list))

\* for entry_index in ...: handles.pop(entry_index); labels.pop(entry_index)
\* an index that is not in the list raises IndexError
RECURSIVE PopLoop(_, _, _)
PopLoop(handles, labels, indices) ==
    IF indices = <<>>
    THEN [err |-> "none", handles |-> handles, labels |-> labels]
    ELSE IF Head(indices) >= Len(handles)
    THEN [err |-> "IndexError", handles |-> handles, labels |-> labels]
    ELSE PopLoop(Pop(handles, Head(indices)), Pop(labels, Head(indices)),
                 Tail(indices))

\* LegendFormatter.recreate_legend: handles and labels not given are those of
\* the wrapped legend, a location not given is matplotlib's default
recreate_legend(wrapped, id, handles, labels, location) ==
    Axes_legend(id,
                IF handles.some THEN handles.v ELSE wrapped.handles,
                IF labels.some THEN labels.v ELSE wrapped.labels,
                IF location.some THEN location.v ELSE "best")

\* LegendFormatter.remove_entries(indices) on the wrapped legend: the error
\* raised, the handles left in the wrapped legend, the new legend
remove_entries(wrapped, id, indices) ==
    LET popped == PopLoop(wrapped.handles, wrapped.labels, SortedReverse(indices))
    IN  IF popped.err # "none"
        THEN [err |-> popped.err,
              legend |-> [wrapped EXCEPT !.handles = popped.handles]]
        ELSE [err |-> "none",
              legend |-> recreate_legend(wrapped, id, Some(popped.handles),
                                         Some(popped.labels), NoLocation)]

\* LegendFormatter.map_labels(mapping): the labels are those of the artists
\* of the Axes, mapped
map_labels(wrapped, id, artists, mapping) ==
    recreate_legend(wrapped, id, NoHandles,
                    Some([k \in 1..Len(artists) |->
                             map_text(PyStr(artists[k]), mapping).items]),
                    NoLocation)

\* inputs
LabelNames == <<"a", "b", "c", "d", "e", "f">>
Artists(n) == [k \in 1..n |-> <<LabelNames[k]>>]
EntryIndices == SeqsUpTo(0..MaxEntries, 0, MaxIndices)
Locations == {"best", "upper left"}
LabelMappings ==
    {PyMapping([key \in {<<"a">>} |-> PyStr(<<"A">>)]),
     PyMapping([key \in {<<"A">>} |-> PyStr(<<"X">>)]), PyNone}
NoLegendCall == [method |-> "none", indices |-> <<>>, mapping |-> PyNone,
                 err |-> "none", before |-> NoLegend]
LegendIdle ==
    /\ legendAxes = [artists |-> <<>>, legend |-> NoLegend, made |-> 0]
    /\ legendFormatter = NoLegend
    /\ legendCall = NoLegendCall

(***************************************************************************)
(* AxisFormatter.keep_ticks (axes/axis_formatter.py) on a categorical      *)
(* axis: the tick labels are texts, a blank Text() is the empty text, the  *)
(* tick locations are 0, 1, 2, ...                                         *)
(***************************************************************************)
MaxTicks == 5
MaxSpacing == 3

NoInt == [some |-> FALSE, v |-> 0]

\* end, after `if end is None or end > num_labels - 1: end = num_labels - 1`
LastLabel(end, num_labels) ==
    IF ~end.some \/ end.v > num_labels - 1 THEN num_labels - 1 ELSE end.v

\* the list given to set_ticklabels
KeptLabels(labels, label_spacing, start, end) ==
    [k \in 1..Len(labels) |->
        IF /\ start <= k - 1
           /\ k - 1 <= LastLabel(end, Len(labels))
           /\ ((k - 1) - start) % label_spacing = 0
        THEN labels[k] ELSE <<>>]

\* the positions of the locations given to set_ticks
KeptPositions(locations, tick_spacing, start, end) ==
    {k \in 1..Len(locations) : ((k - 1) - start) % tick_spacing = 0}

\* the elements of list at the positions, in order
RECURSIVE AtPositions(_, _, _)
AtPositions(list, positions, k) ==
    IF k > Len(list) THEN <<>>
    ELSE (IF k \in positions THEN <<list[k]>> ELSE <<>>)
         \o AtPositions(list, positions, k + 1)

keep_ticks(axis, label_spacing, tick_spacing, start, end) ==
    [labels |-> IF label_spacing.some
                THEN KeptLabels(axis.labels, label_spacing.v, start, end)
                ELSE axis.labels,
     locations |-> IF tick_spacing.some
                   THEN AtPositions(axis.locations,
                                    KeptPositions(axis.locations, tick_spacing.v,
                                                  start, end), 1)
                   ELSE axis.locations]

\* inputs
CategoricalAxis(n) ==
    [labels |-> [k \in 1..n |-> <<"l", k - 1>>], locations |-> [k \in 1..n |-> k - 1]]
Spacings == {NoInt} \cup {Some(s) : s \in 1..MaxSpacing}
Ends == {NoInt} \cup {Some(e) : e \in 0..MaxTicks}
NoKeepCall == [label_spacing |-> NoInt, tick_spacing |-> NoInt, start |-> 0,
               end |-> NoInt, before |-> CategoricalAxis(0), called |-> FALSE]
KeepIdle == tickAxis = CategoricalAxis(0) /\ keepCall = NoKeepCall

(***************************************************************************)
(* AxesAnimator (animation/animators/axes_animator.py).  The duration is   *)
(* a rational, the frame rate an integer; a shape animation is known by    *)
(* its identity, and its draw() is recorded as the call it receives.       *)
(***************************************************************************)
MaxShapes == 2
MaxDuration == 2
MaxFps == 3

\* int(x) of a float: truncation towards zero
int(x) == IF x[1] >= 0 THEN x[1] \div x[2] ELSE -((-x[1]) \div x[2])

\* (mutant of linspace: the stop is left out, as with endpoint=False)
linspace_open(stop, num) == [k \in 1..num |-> RatMul(stop, Rat(k - 1, num))]

\* numpy.linspace(0, stop, num): num evenly spaced samples, the last one stop
linspace(stop, num) ==
    [k \in 1..num |-> IF num = 1 THEN Zero ELSE RatMul(stop, Rat(k - 1, num - 1))]

\* the sequence the outer loop of animate() iterates over
FrameTimes(duration, fps) ==
    linspace(duration, 1 + int(RatMul(duration, RatInt(fps))))

\* AxesAnimator.__init__(formatter, duration)
AxesAnimator_init(duration, fps) ==
    [duration |-> duration, fps |-> fps, shapes |-> <<>>, pc |-> "built",
     times |-> <<>>, frame |-> 0, shape |-> 0, savedFps |-> 0]

\* the calls animate() makes, in order: shape.draw(t, axes) and camera.snap()
DrawCall(shape, t) == [op |-> "draw", shape |-> shape, t |-> t]
SnapCall == [op |-> "snap", shape |-> 0, t |-> Zero]

ShapeIds == 1..MaxShapes
Durations == {Rat(1, 4), Rat(1, 2)} \cup {RatInt(d) : d \in 1..MaxDuration}
FrameRates == 0..MaxFps

NoAnimator == [duration |-> Zero, fps |-> 0, shapes |-> <<>>, pc |-> "none",
               times |-> <<>>, frame |-> 0, shape |-> 0, savedFps |-> 0]
AnimIdle == animator = NoAnimator /\ animCalls = <<>>

(***************************************************************************)
(* Style options on their way to the plotting library: add_text            *)
(* (axes/axes_formatter.py) and set_grid_line_style                        *)
(* (axes/ticks_formatter.py).  A dict of keyword arguments is a function   *)
(* from its keys.                                                          *)
(***************************************************************************)
Number(digits) == [kind |-> "number", cls |-> "", name |-> digits]

\* the keys of add_text that start with 'bbox__', and kw[6:] of each
BboxKeys ==
    [bbox__boxstyle |-> "boxstyle", bbox__capstyle |-> "capstyle",
     bbox__joinstyle |-> "joinstyle", bbox__linestyle |-> "linestyle"]
FontKeys == {"fontsize", "fontstretch", "fontstyle", "fontvariant", "fontweight"}

\* the keyword arguments add_text(x=0, y=0, text='text', ...) builds when one
\* style option is given and the others are left at None
AddTextKwargs(key, value) ==
    [kw \in {"x", "y", "s"} \cup FontKeys \cup DOMAIN BboxKeys |->
        IF kw \in {"x", "y"} THEN Number("0")
        ELSE IF kw = "s" THEN StyleStr("text")
        ELSE IF kw = key THEN value
        ELSE IF kw \in DOMAIN BboxKeys /\ BboxKeys[kw] = key THEN value
        ELSE StyleNone]

\* a converter raised while a dict was being built
RaisedIn(items) == \E kw \in DOMAIN items : items[kw].kind = "raise"
ErrorIn(items) == (CHOOSE kw \in DOMAIN items : items[kw].kind = "raise")

\* what the plotting library received, or the exception raised before
Received(text, bbox) == [err |-> "none", text |-> text, bbox |-> bbox]
NotReceived(err) == [err |-> err, text |-> <<>>, bbox |-> <<>>]

\* the loop body of add_text for one dict of keyword arguments, up to
\* self._axes.text(**kwargs); kwargs['bbox'] is kept apart as bbox
add_text(zipped) ==
    LET kwargs == apply_mappings(drop_none_values(zipped))
        prefixed == {kw \in DOMAIN kwargs : kw \in DOMAIN BboxKeys}
        bbox_kwargs == [k \in {BboxKeys[kw] : kw \in prefixed} |->
                           kwargs[CHOOSE kw \in prefixed : BboxKeys[kw] = k]]
        rest == [kw \in DOMAIN kwargs \ prefixed |-> kwargs[kw]]
    IN  IF RaisedIn(kwargs) THEN NotReceived(kwargs[ErrorIn(kwargs)].name)
        ELSE IF prefixed = {} THEN Received(rest, <<>>)
        ELSE LET bbox == apply_mappings(bbox_kwargs)
             IN  IF RaisedIn(bbox) THEN NotReceived(bbox[ErrorIn(bbox)].name)
                 ELSE Received(rest, bbox)

\* set_grid_line_style(line_style): tick_params(grid_linestyle=...)
set_grid_line_style(line_style) ==
    LET converted == get_style("LINE_STYLE", line_style)
    IN  IF converted.kind = "raise" THEN NotReceived(converted.name)
        ELSE Received([kw \in {"grid_linestyle"} |-> converted], <<>>)

\* inputs: every member of the enumeration of the key, two strings and None
StyleValues(key) ==
    {Member(kwarg_mappings[key], name) : name \in MemberNames[kwarg_mappings[key]]}
    \cup {StyleStr("dashed"), StyleStr(""), StyleNone}

NoStyleOption == [key |-> "", value |-> StyleNone]
NoStyleCall == [method |-> "none", err |-> "uncalled", text |-> <<>>, bbox |-> <<>>]
StyleIdle == styleOption = NoStyleOption /\ styleCall = NoStyleCall

\* The variables of the subsystems that follow the tick labels, what each
\* subsystem leaves unchanged, and the state in which they have not been used.
wrapVars == <<wrapCall>>
mapVars == <<mapCall>>
figureVars == <<figFormatter, titles, setTextCall>>
parenVars == <<parenLoop>>
legendVars == <<legendAxes, legendFormatter, legendCall>>
keepVars == <<tickAxis, keepCall>>
animVars == <<animator, animCalls>>
styleVars == <<styleOption, styleCall>>
laterVars == <<wrapVars, mapVars, figureVars, parenVars, legendVars, keepVars, animVars, styleVars>>
vars == <<floatVars, colorVars, rateVars, zipVars, shapeVars, textVars, chainVars, saveVars, tickVars,
          laterVars>>
nonWrapVars == <<floatVars, colorVars, rateVars, zipVars, shapeVars,
    textVars, chainVars, saveVars, tickVars,
    mapVars, figureVars, parenVars, legendVars, keepVars, animVars, styleVars>>
nonMapVars == <<floatVars, colorVars, rateVars, zipVars, shapeVars,
    textVars, chainVars, saveVars, tickVars,
    wrapVars, figureVars, parenVars, legendVars, keepVars, animVars, styleVars>>
nonFigureVars == <<floatVars, colorVars, rateVars, zipVars, shapeVars,
    textVars, chainVars, saveVars, tickVars,
    wrapVars, mapVars, parenVars, legendVars, keepVars, animVars, styleVars>>
nonParenVars == <<floatVars, colorVars, rateVars, zipVars, shapeVars,
    textVars, chainVars, saveVars, tickVars,
    wrapVars, mapVars, figureVars, legendVars, keepVars, animVars, styleVars>>
nonLegendVars == <<floatVars, colorVars, rateVars, zipVars, shapeVars,
    textVars, chainVars, saveVars, tickVars,
    wrapVars, mapVars, figureVars, parenVars, keepVars, animVars, styleVars>>
nonKeepVars == <<floatVars, colorVars, rateVars, zipVars, shapeVars,
    textVars, chainVars, saveVars, tickVars,
    wrapVars, mapVars, figureVars, parenVars, legendVars, animVars, styleVars>>
nonAnimVars == <<floatVars, colorVars, rateVars, zipVars, shapeVars,
    textVars, chainVars, saveVars, tickVars,
    wrapVars, mapVars, figureVars, parenVars, legendVars, keepVars, styleVars>>
nonStyleVars == <<floatVars, colorVars, rateVars, zipVars, shapeVars,
    textVars, chainVars, saveVars, tickVars,
    wrapVars, mapVars, figureVars, parenVars, legendVars, keepVars, animVars>>
CoreIdle ==
    /\ FloatIdle /\ ColorIdle /\ RateIdle /\ ZipIdle /\ ShapeIdle
    /\ TextIdle /\ ChainIdle /\ SaveIdle /\ TickIdle
LaterIdle(sub) ==
    /\ IF sub = "wrap" THEN TRUE ELSE WrapIdle
    /\ IF sub = "map" THEN TRUE ELSE MapIdle
    /\ IF sub = "figure" THEN TRUE ELSE FigureIdle
    /\ IF sub = "paren" THEN TRUE ELSE ParenIdle
    /\ IF sub = "legend" THEN TRUE ELSE LegendIdle
    /\ IF sub = "keep" THEN TRUE ELSE KeepIdle
    /\ IF sub = "anim" THEN TRUE ELSE AnimIdle
    /\ IF sub = "style" THEN TRUE ELSE StyleIdle
\* (end of the variable groups)

nonFloatVars == <<colorVars, rateVars, zipVars, shapeVars, textVars,
                  chainVars, saveVars, tickVars, laterVars>>
nonColorVars == <<floatVars, rateVars, zipVars, shapeVars, textVars,
                  chainVars, saveVars, tickVars, laterVars>>
nonRateVars == <<zipVars, shapeVars, textVars, chainVars, saveVars, tickVars, laterVars>>
nonZipVars == <<floatVars, colorVars, rateVars, shapeVars, textVars,
                chainVars, saveVars, tickVars, laterVars>>
nonShapeVars == <<floatVars, colorVars, rateVars, zipVars, textVars,
                  chainVars, saveVars, tickVars, laterVars>>
nonTextVars == <<floatVars, colorVars, rateVars, zipVars, shapeVars,
                 chainVars, saveVars, tickVars, laterVars>>
nonChainVars == <<floatVars, colorVars, rateVars, zipVars, shapeVars,
                  textVars, saveVars, tickVars, laterVars>>
nonSaveVars == <<floatVars, colorVars, rateVars, zipVars, shapeVars,
                 textVars, chainVars, tickVars, laterVars>>
nonTickVars == <<floatVars, colorVars, rateVars, zipVars, shapeVars,
                 textVars, chainVars, saveVars, laterVars>>

(***************************************************************************)
(* The FloatAnimation state machine: an animation is built, then           *)
(* evaluated, given new values or reversed.                                *)
(***************************************************************************)
FloatInit ==
    /\ \E values \in {None} \cup {Some(v) : v \in ValueLists},
          t \in {None} \cup {Some(s) : s \in TimeLists},
          rate \in RateArgs :
          /\ (values.some /\ t.some) => Len(values.v) = Len(t.v)
          /\ floatAnim = FloatAnimation_init(values, t, rate)
    /\ floatAt = NotCalled
    /\ ColorIdle /\ RateIdle /\ ZipIdle /\ ShapeIdle
    /\ TextIdle /\ ChainIdle /\ SaveIdle /\ TickIdle
    /\ LaterIdle("")

FloatAt(q) ==
    /\ floatAt' = Called(q, FloatAnimation_at(floatAnim, q))
    /\ UNCHANGED floatAnim
    /\ UNCHANGED nonFloatVars

FloatSetValues(values) ==
    /\ floatAnim' = FloatAnimation_set_values(floatAnim, values)
    /\ floatAt' = NotCalled
    /\ UNCHANGED nonFloatVars

\* the caller goes on with the animation reverse_values() returns
FloatReverseValues ==
    /\ floatAnim' = FloatAnimation_reverse_values(floatAnim)
    /\ floatAt' = NotCalled
    /\ UNCHANGED nonFloatVars

FloatNext ==
    \/ \E q \in QueryTimes : FloatAt(q)
    \/ \E values \in ValueLists : FloatSetValues(values)
    \/ FloatReverseValues

SpecFloat == FloatInit /\ [][FloatNext]_vars

(***************************************************************************)
(* The ColorAnimation state machine: an animation is built by the          *)
(* constructor or by fade_in, then evaluated.                              *)
(***************************************************************************)
ColorInit ==
    /\ \/ \E colors \in ColorLists,
             t \in {None} \cup {Some(s) : s \in IncreasingTimeLists},
             rate \in ColorRateArgs :
             /\ t.some => Len(colors) = Len(t.v)
             /\ colorAnim = ColorAnimation_init(colors, t, rate)
       \/ \E color \in ColorInputs : colorAnim = ColorAnimation_fade_in(color)
    /\ colorAt = ColorNotCalled
    /\ FloatIdle /\ RateIdle /\ ZipIdle /\ ShapeIdle
    /\ TextIdle /\ ChainIdle /\ SaveIdle /\ TickIdle
    /\ LaterIdle("")

ColorAt(q) ==
    /\ colorAt' = ColorCalled(q, ColorAnimation_at(colorAnim, q))
    /\ UNCHANGED colorAnim
    /\ UNCHANGED nonColorVars

ColorNext == \E q \in QueryTimes : ColorAt(q)

SpecColor == ColorInit /\ [][ColorNext]_vars

(***************************************************************************)
(* Construction from a rate name: Rate(name), FloatAnimation(rate=name)    *)
(* and ColorAnimation(colors, rate=name).                                  *)
(***************************************************************************)
StrRate(name) == [tag |-> "str", name |-> name]

RateInit ==
    /\ FloatIdle /\ ColorIdle /\ RateIdle /\ ZipIdle /\ ShapeIdle
    /\ TextIdle /\ ChainIdle /\ SaveIdle /\ TickIdle
    /\ LaterIdle("")

NewRate(name) ==
    /\ rateCall' = [cls |-> "Rate", arg |-> name,
                    err |-> RateFromStr(name).err, fn |-> RateFromStr(name).fn]
    /\ UNCHANGED <<floatVars, colorVars>>
    /\ UNCHANGED nonRateVars

NewFloatAnimation(values, name) ==
    /\ floatAnim' = FloatAnimation_init(values, None, StrRate(name))
    /\ floatAt' = NotCalled
    /\ rateCall' = [cls |-> "FloatAnimation", arg |-> name,
                    err |-> floatAnim'.err, fn |-> floatAnim'.rate.fn]
    /\ UNCHANGED colorVars
    /\ UNCHANGED nonRateVars

NewColorAnimation(colors, name) ==
    /\ colorAnim' = ColorAnimation_init(colors, None, StrRate(name))
    /\ colorAt' = ColorNotCalled
    /\ rateCall' = [cls |-> "ColorAnimation", arg |-> name,
                    err |-> colorAnim'.err, fn |-> colorAnim'.rate.fn]
    /\ UNCHANGED floatVars
    /\ UNCHANGED nonRateVars

RateNext ==
    \/ \E name \in RateNames : NewRate(name)
    \/ \E name \in RateNames, values \in {None, Some(<<1, 3>>)} :
          NewFloatAnimation(values, name)
    \/ \E name \in RateNames :
          NewColorAnimation(<<NamedColor("red"), NamedColor("blue")>>, name)

SpecRate == RateInit /\ [][RateNext]_vars

(***************************************************************************)
(* Calls of smart_zip_kwargs.                                              *)
(***************************************************************************)
ZipInit ==
    /\ zipKwargs \in ZipInputs
    /\ zipOut = ZipNotCalled
    /\ FloatIdle /\ ColorIdle /\ RateIdle /\ ShapeIdle
    /\ TextIdle /\ ChainIdle /\ SaveIdle /\ TickIdle
    /\ LaterIdle("")

SmartZipKwargs ==
    /\ ~zipOut.called
    /\ zipOut' = [called |-> TRUE, dicts |-> smart_zip_kwargs(zipKwargs)]
    /\ UNCHANGED zipKwargs
    /\ UNCHANGED nonZipVars

ZipNext == SmartZipKwargs

SpecZip == ZipInit /\ [][ZipNext]_vars

(***************************************************************************)
(* Shapes added to the Axes of a new AxesFormatter.                        *)
(***************************************************************************)
ShapeInit ==
    /\ ShapeIdle /\ FloatIdle /\ ColorIdle /\ RateIdle /\ ZipIdle
    /\ TextIdle /\ ChainIdle /\ SaveIdle /\ TickIdle
    /\ LaterIdle("")

AddArrow(args) ==
    /\ Len(patches) < MaxPatches
    /\ patches' = add_arrow(args, patches).patches
    /\ shapeCall' = [method |-> "add_arrow", args |-> args,
                     err |-> add_arrow(args, patches).err, before |-> patches]
    /\ UNCHANGED nonShapeVars

AddRectangle(args) ==
    /\ Len(patches) < MaxPatches
    /\ patches' = add_rectangle(args, patches).patches
    /\ shapeCall' = [method |-> "add_rectangle", args |-> args,
                     err |-> add_rectangle(args, patches).err, before |-> patches]
    /\ UNCHANGED nonShapeVars

ShapeNext ==
    \/ \E args \in ArrowArgs : AddArrow(args)
    \/ \E args \in RectangleArgs : AddRectangle(args)

SpecShape == ShapeInit /\ [][ShapeNext]_vars

(***************************************************************************)
(* Alignment calls on the TextFormatters of a list of new Text objects     *)
(* and on the TextListFormatter that holds them.                           *)
(***************************************************************************)
TextInit ==
    /\ texts = [i \in 1..NumTexts |-> NewText]
    /\ alignCall = NoAlignCall
    /\ FloatIdle /\ ColorIdle /\ RateIdle /\ ZipIdle /\ ShapeIdle
    /\ ChainIdle /\ SaveIdle /\ TickIdle
    /\ LaterIdle("")

AlignCalled(cls, method, alignment, index, err) ==
    [cls |-> cls, method |-> method, alignment |-> alignment, index |-> index,
     err |-> err, before |-> texts]

TextSetHa(i, alignment) ==
    /\ texts' = [texts EXCEPT ![i] = TextFormatter_set_ha(texts[i], alignment).text]
    /\ alignCall' = AlignCalled("TextFormatter", "set_ha", alignment, i,
                                TextFormatter_set_ha(texts[i], alignment).err)
    /\ UNCHANGED nonTextVars

TextSetVa(i, alignment) ==
    /\ texts' = [texts EXCEPT ![i] = TextFormatter_set_va(texts[i], alignment).text]
    /\ alignCall' = AlignCalled("TextFormatter", "set_va", alignment, i,
                                TextFormatter_set_va(texts[i], alignment).err)
    /\ UNCHANGED nonTextVars

TextListSetHa(alignment) ==
    /\ texts' = TextListFormatter_set_ha(texts, alignment).texts
    /\ alignCall' = AlignCalled("TextListFormatter", "set_ha", alignment, 0,
                                TextListFormatter_set_ha(texts, alignment).err)
    /\ UNCHANGED nonTextVars

TextListSetVa(alignment) ==
    /\ texts' = TextListFormatter_set_va(texts, alignment).texts
    /\ alignCall' = AlignCalled("TextListFormatter", "set_va", alignment, 0,
                                TextListFormatter_set_va(texts, alignment).err)
    /\ UNCHANGED nonTextVars

TextNext ==
    \/ \E i \in 1..NumTexts, alignment \in AlignmentInputs : TextSetHa(i, alignment)
    \/ \E i \in 1..NumTexts, alignment \in AlignmentInputs : TextSetVa(i, alignment)
    \/ \E alignment \in AlignmentInputs : TextListSetHa(alignment)
    \/ \E alignment \in AlignmentInputs : TextListSetVa(alignment)

SpecText == TextInit /\ [][TextNext]_vars

(***************************************************************************)
(* Chained calls: each call is made on what the call before it returned;   *)
(* a chain ends when a value that is no formatter is returned.             *)
(***************************************************************************)
ChainInit ==
    /\ receiver \in {[cls |-> c, id |-> 1] : c \in FormatterClasses}
    /\ chainCall = NoChainCall
    /\ FloatIdle /\ ColorIdle /\ RateIdle /\ ZipIdle /\ ShapeIdle /\ TextIdle /\ SaveIdle /\ TickIdle
    /\ LaterIdle("")

CallMethod(method) ==
    /\ IsFormatter(receiver)
    /\ method \in PublicMethods(receiver.cls)
    /\ ReturnOf(receiver, method).id <= MaxFormatters
    /\ chainCall' = [obj |-> receiver, method |-> method,
                     ret |-> ReturnOf(receiver, method)]
    /\ receiver' = ReturnOf(receiver, method)
    /\ UNCHANGED nonChainVars

NewChain(cls) ==
    /\ receiver' = [cls |-> cls, id |-> 1]
    /\ UNCHANGED <<chainCall, nonChainVars>>

ChainNext ==
    \/ \E method \in PublicMethods(receiver.cls) : CallMethod(method)
    \/ \E cls \in FormatterClasses : NewChain(cls)

SpecChain == ChainInit /\ [][ChainNext]_vars

(***************************************************************************)
(* Calls of save_plot.                                                     *)
(***************************************************************************)
SaveInit ==
    /\ saveCall \in {[NoSaveCall EXCEPT !.plot_object = plot_object,
                                        !.file_path = file_path,
                                        !.file_type = file_type] :
                        plot_object \in PlotObjectTypes \cup {"str"}, file_path \in FilePaths,
                        file_type \in FileTypeArgs}
    /\ FloatIdle /\ ColorIdle /\ RateIdle /\ ZipIdle /\ ShapeIdle /\ TextIdle
    /\ ChainIdle /\ TickIdle
    /\ LaterIdle("")

\* the call save_plot(plot_object, file_path, file_type), savefig included
SavePlot ==
    LET out == save_plot(saveCall.plot_object, saveCall.file_path, saveCall.file_type)
    IN  /\ ~saveCall.called
        /\ \E outcome \in (IF out.err = "none" THEN savefig(out.fname) ELSE {out.err}) :
              saveCall' = [saveCall EXCEPT
                              !.called = TRUE,
                              !.err = IF outcome = "saved" THEN "none" ELSE outcome,
                              !.fname = out.fname,
                              !.saved = outcome = "saved"]
        /\ UNCHANGED nonSaveVars

SaveNext == SavePlot

SpecSave == SaveInit /\ [][SaveNext]_vars

(***************************************************************************)
(* One tick labelled by the formatter of set_format_integer on one axis    *)
(* and by that of set_format_currency on another, with the same kmbt.      *)
(***************************************************************************)
TickInit ==
    /\ tickLabel \in {[NoTickLabel EXCEPT !.tick = tick, !.kmbt = kmbt,
                                          !.symbol = symbol,
                                          !.num_decimals = num_decimals,
                                          !.idle = FALSE] :
                         tick \in Ticks, kmbt \in BOOLEAN,
                         symbol \in {<<"$">>, <<"U", "S", "D">>},
                         num_decimals \in {0, 2}}
    /\ FloatIdle /\ ColorIdle /\ RateIdle /\ ZipIdle /\ ShapeIdle /\ TextIdle
    /\ ChainIdle /\ SaveIdle
    /\ LaterIdle("")

FormatInteger ==
    /\ tickLabel.integer = None
    /\ tickLabel' = [tickLabel EXCEPT
                        !.integer = Some(to_integer(tickLabel.tick, tickLabel.kmbt))]
    /\ UNCHANGED nonTickVars

FormatCurrency ==
    /\ tickLabel.currency = None
    /\ tickLabel' = [tickLabel EXCEPT
                        !.currency = Some(to_currency(tickLabel.tick, tickLabel.symbol,
                                                      tickLabel.num_decimals,
                                                      tickLabel.kmbt))]
    /\ UNCHANGED nonTickVars

TickNext == FormatInteger \/ FormatCurrency

SpecTick == TickInit /\ [][TickNext]_vars

(***************************************************************************)
(* One call of wrap_text.  MAX_LABEL_WIDTH is a positive setting.          *)
(***************************************************************************)
WrapInit ==
    /\ wrapCall \in {[NoWrapCall EXCEPT !.text = text, !.max_width = max_width,
                                        !.label_width = label_width] :
                        text \in WrapTexts, max_width \in WrapWidths,
                        label_width \in 1..MaxLabelWidth}
    /\ CoreIdle
    /\ LaterIdle("wrap")

WrapText ==
    /\ ~wrapCall.called
    /\ wrapCall' = [wrapCall EXCEPT
                       !.called = TRUE,
                       !.result = wrap_text(wrapCall.text, wrapCall.max_width,
                                            wrapCall.label_width)]
    /\ UNCHANGED nonWrapVars

WrapNext == WrapText

SpecWrap == WrapInit /\ [][WrapNext]_vars

(***************************************************************************)
(* One call of map_text.                                                   *)
(***************************************************************************)
MapInit ==
    /\ mapCall \in {[NoMapCall EXCEPT !.text = text, !.mapping = mapping] :
                       text \in MapTexts, mapping \in Mappings}
    /\ CoreIdle
    /\ LaterIdle("map")

MapText ==
    /\ ~mapCall.called
    /\ mapCall' = [mapCall EXCEPT
                      !.called = TRUE,
                      !.result = map_text(mapCall.text, mapCall.mapping)]
    /\ UNCHANGED nonMapVars

MapNext == MapText

SpecMap == MapInit /\ [][MapNext]_vars

(***************************************************************************)
(* A FigureFormatter is built from a Figure, from an Axes or from a grid   *)
(* size; then the title texts of its Axes are set.                         *)
(***************************************************************************)
FigureInit ==
    /\ \/ \E axes_list \in AxesLists, n_rows \in 1..MaxRows, n_cols \in 1..MaxCols :
             figFormatter = FigureFormatter_from_figure(axes_list, n_rows, n_cols)
       \/ figFormatter = FigureFormatter_from_axes(1)
       \/ \E n_rows \in 1..MaxRows, n_cols \in 1..MaxCols,
             share_x \in ShareArgs, share_y \in ShareArgs :
             figFormatter = FigureFormatter_new(n_rows, n_cols, share_x, share_y)
    /\ titles = NoTitles
    /\ setTextCall = NoSetTextCall
    /\ CoreIdle
    /\ LaterIdle("figure")

\* set_axes_title_text(text)
SetAxesTitleText(text) ==
    /\ figFormatter.err = "none"
    /\ LET outcome == set_text_property(figFormatter, text)
       IN  /\ titles' = TitlesAfter(titles, outcome.calls)
           /\ setTextCall' = [text |-> text, calls |-> outcome.calls,
                              err |-> outcome.err]
    /\ UNCHANGED figFormatter
    /\ UNCHANGED nonFigureVars

FigureNext == \E text \in TextSetters : SetAxesTitleText(text)

SpecFigure == FigureInit /\ [][FigureNext]_vars

(***************************************************************************)
(* One call of remove_parenthesized_text.  The process runs while the      *)
(* loop does: a text that outgrows the memory ends the call with           *)
(* MemoryError.                                                            *)
(***************************************************************************)
ParenInit ==
    /\ parenLoop \in {[input |-> input, text |-> input.items, pc |-> "while"] :
                         input \in ParenTexts}
    /\ CoreIdle
    /\ LaterIdle("paren")

\* while '(' in text and ')' in text: ... return text
ParenTest ==
    /\ parenLoop.pc = "while"
    /\ parenLoop' = [parenLoop EXCEPT
                        !.pc = IF LoopCondition(parenLoop.text)
                               THEN "body" ELSE "returned"]
    /\ UNCHANGED nonParenVars

\* l_pos = ...; r_pos = ...; text = text[:l_pos] + text[r_pos + 1:]
ParenBody ==
    /\ parenLoop.pc = "body"
    /\ parenLoop' =
           IF Len(LoopBody(parenLoop.text)) > MaxGrownLen
           THEN [parenLoop EXCEPT !.pc = "MemoryError"]
           ELSE [parenLoop EXCEPT !.text = LoopBody(parenLoop.text),
                                  !.pc = "while"]
    /\ UNCHANGED nonParenVars

ParenNext == ParenTest \/ ParenBody

SpecParen == ParenInit /\ [][ParenNext]_vars

\* the interpreter keeps running a loop that can go on
SpecParenFair == SpecParen /\ WF_vars(ParenNext)

(***************************************************************************)
(* An AxesFormatter on an Axes with labelled artists, with or without a    *)
(* legend; legendFormatter is the Legend its _legend wraps (NoLegend for   *)
(* None).  The legend is added, removed and re-made.                       *)
(***************************************************************************)
LegendInit ==
    /\ \E n \in 1..MaxEntries, has_legend \in BOOLEAN :
          LET legend == IF has_legend
                        THEN Axes_legend(1, Axes_handles(Artists(n)), Artists(n),
                                         "best")
                        ELSE NoLegend
          IN  /\ legendAxes = [artists |-> Artists(n), legend |-> legend,
                               made |-> legend.id]
              /\ legendFormatter = legend
    /\ legendCall = NoLegendCall
    /\ CoreIdle
    /\ LaterIdle("legend")

NewLegendId == legendAxes.made + 1
Attach(legend) == [legendAxes EXCEPT !.legend = legend, !.made = legend.id]
LegendCalled(method, indices, err) ==
    [method |-> method, indices |-> indices, mapping |-> PyNone, err |-> err,
     before |-> legendFormatter]

\* AxesFormatter.add_legend()
AddLegend ==
    /\ legendAxes.made < MaxLegends
    /\ LET legend == Axes_legend(NewLegendId, Axes_handles(legendAxes.artists),
                                 legendAxes.artists, "best")
       IN  /\ legendAxes' = Attach(legend)
           /\ legendFormatter' = legend
    /\ legendCall' = LegendCalled("add_legend", <<>>, "none")
    /\ UNCHANGED nonLegendVars

\* AxesFormatter.remove_legend()
RemoveLegend ==
    /\ IF legendAxes.legend # NoLegend
       THEN /\ legendAxes' = [legendAxes EXCEPT !.legend = NoLegend]
            /\ legendFormatter' = NoLegend
       ELSE UNCHANGED <<legendAxes, legendFormatter>>
    /\ legendCall' = LegendCalled("remove_legend", <<>>, "none")
    /\ UNCHANGED nonLegendVars

\* AxesFormatter.set_font_sizes(legend=...): ax.legend(fontsize=legend)
SetFontSizes ==
    /\ legendAxes.made < MaxLegends
    /\ legendAxes' = Attach(Axes_legend(NewLegendId,
                                        Axes_handles(legendAxes.artists),
                                        legendAxes.artists, "best"))
    /\ legendCall' = LegendCalled("set_font_sizes", <<>>, "none")
    /\ UNCHANGED legendFormatter
    /\ UNCHANGED nonLegendVars

\* axes_formatter.legend.set_location(location)
SetLocation(location) ==
    /\ legendFormatter # NoLegend
    /\ legendAxes.made < MaxLegends
    /\ LET legend == recreate_legend(legendFormatter, NewLegendId, NoHandles,
                                     NoHandles, Some(location))
       IN  /\ legendAxes' = Attach(legend)
           /\ legendFormatter' = legend
    /\ legendCall' = LegendCalled("set_location", <<>>, "none")
    /\ UNCHANGED nonLegendVars

\* axes_formatter.legend.recreate_legend()
RecreateLegend ==
    /\ legendFormatter # NoLegend
    /\ legendAxes.made < MaxLegends
    /\ LET legend == recreate_legend(legendFormatter, NewLegendId, NoHandles,
                                     NoHandles, NoLocation)
       IN  /\ legendAxes' = Attach(legend)
           /\ legendFormatter' = legend
    /\ legendCall' = LegendCalled("recreate_legend", <<>>, "none")
    /\ UNCHANGED nonLegendVars

\* axes_formatter.legend.remove_entries(indices)
RemoveEntries(indices) ==
    /\ legendFormatter # NoLegend
    /\ legendAxes.made < MaxLegends
    /\ LET removed == remove_entries(legendFormatter, NewLegendId, indices)
       IN  /\ legendFormatter' = removed.legend
           /\ legendAxes' =
                  IF removed.err = "none" THEN Attach(removed.legend)
                  ELSE IF legendAxes.legend.id = legendFormatter.id
                  THEN [legendAxes EXCEPT !.legend = removed.legend]
                  ELSE legendAxes
           /\ legendCall' = LegendCalled("remove_entries", indices, removed.err)
    /\ UNCHANGED nonLegendVars

\* axes_formatter.legend.map_labels(mapping)
MapLabels(mapping) ==
    /\ legendFormatter # NoLegend
    /\ legendAxes.made < MaxLegends
    /\ LET legend == map_labels(legendFormatter, NewLegendId,
                                legendAxes.artists, mapping)
       IN  /\ legendAxes' = Attach(legend)
           /\ legendFormatter' = legend
    /\ legendCall' = [LegendCalled("map_labels", <<>>, "none")
                          EXCEPT !.mapping = mapping]
    /\ UNCHANGED nonLegendVars

LegendNext ==
    \/ AddLegend
    \/ RemoveLegend
    \/ SetFontSizes
    \/ \E location \in Locations : SetLocation(location)
    \/ RecreateLegend
    \/ \E indices \in EntryIndices : RemoveEntries(indices)
    \/ \E mapping \in LabelMappings : MapLabels(mapping)

SpecLegend == LegendInit /\ [][LegendNext]_vars

(***************************************************************************)
(* One call of keep_ticks on a categorical axis.                           *)
(***************************************************************************)
KeepInit ==
    /\ tickAxis \in {CategoricalAxis(n) : n \in 1..MaxTicks}
    /\ keepCall = NoKeepCall
    /\ CoreIdle
    /\ LaterIdle("keep")

KeepTicks(label_spacing, tick_spacing, start, end) ==
    /\ ~keepCall.called
    /\ tickAxis' = keep_ticks(tickAxis, label_spacing, tick_spacing, start, end)
    /\ keepCall' = [label_spacing |-> label_spacing, tick_spacing |-> tick_spacing,
                    start |-> start, end |-> end, before |-> tickAxis,
                    called |-> TRUE]
    /\ UNCHANGED nonKeepVars

KeepNext ==
    \E label_spacing \in Spacings, tick_spacing \in Spacings,
       start \in 0..(MaxTicks - 1), end \in Ends :
        KeepTicks(label_spacing, tick_spacing, start, end)

SpecKeep == KeepInit /\ [][KeepNext]_vars

(***************************************************************************)
(* The animator: shapes are added, then animate() runs frame by frame.     *)
(***************************************************************************)
AnimInit ==
    /\ \E duration \in Durations, fps \in FrameRates :
           animator = AxesAnimator_init(duration, fps)
    /\ animCalls = <<>>
    /\ CoreIdle /\ LaterIdle("anim")

\* add_animation(animation): self.shapes.append(animation)
AddAnimation(shape) ==
    /\ animator.pc = "built"
    /\ Len(animator.shapes) < MaxShapes
    /\ \A k \in 1..Len(animator.shapes) : animator.shapes[k] # shape
    /\ animator' = [animator EXCEPT !.shapes = Append(@, shape)]
    /\ UNCHANGED animCalls
    /\ UNCHANGED nonAnimVars

\* animate(file_name, fps): the camera is made and the frame times computed
Animate ==
    /\ animator.pc = "built"
    /\ animator' = [animator EXCEPT
                        !.times = FrameTimes(animator.duration, animator.fps),
                        !.frame = 1, !.shape = 0, !.pc = "frame"]
    /\ UNCHANGED animCalls
    /\ UNCHANGED nonAnimVars

\* one turn of `for shape in self.shapes`: shape.draw(t / self.duration, ...)
DrawShape ==
    /\ animator.pc = "frame"
    /\ animator.shape < Len(animator.shapes)
    /\ animCalls' = Append(animCalls,
                           DrawCall(animator.shapes[animator.shape + 1],
                                    RatDiv(animator.times[animator.frame],
                                           animator.duration)))
    /\ animator' = [animator EXCEPT !.shape = @ + 1]
    /\ UNCHANGED nonAnimVars

\* camera.snap() at the end of the frame, then the next t of the outer loop
SnapFrame ==
    /\ animator.pc = "frame"
    /\ animator.shape = Len(animator.shapes)
    /\ animCalls' = Append(animCalls, SnapCall)
    /\ animator' = IF animator.frame < Len(animator.times)
                   THEN [animator EXCEPT !.frame = @ + 1, !.shape = 0]
                   ELSE [animator EXCEPT !.pc = "save"]
    /\ UNCHANGED nonAnimVars

\* camera.animate() and animation.save(file_name, writer='imagemagick', fps=30)
SaveAnimation ==
    /\ animator.pc = "save"
    /\ animator' = [animator EXCEPT !.pc = "saved", !.savedFps = 30]
    /\ UNCHANGED animCalls
    /\ UNCHANGED nonAnimVars

AnimNext ==
    \/ \E shape \in ShapeIds : AddAnimation(shape)
    \/ Animate
    \/ DrawShape
    \/ SnapFrame
    \/ SaveAnimation

SpecAnim == AnimInit /\ [][AnimNext]_vars

(***************************************************************************)
(* One style option, given to add_text or to set_grid_line_style.          *)
(***************************************************************************)
StyleInit ==
    /\ \E key \in DOMAIN kwarg_mappings : \E value \in StyleValues(key) :
           styleOption = [key |-> key, value |-> value]
    /\ styleCall = NoStyleCall
    /\ CoreIdle /\ LaterIdle("style")

StyleCalled(method, received) ==
    [method |-> method, err |-> received.err, text |-> received.text,
     bbox |-> received.bbox]

\* add_text(x, y, text, <option>=value)
AddText ==
    /\ styleCall.method = "none"
    /\ styleCall' = StyleCalled("add_text",
                                add_text(AddTextKwargs(styleOption.key,
                                                       styleOption.value)))
    /\ UNCHANGED styleOption
    /\ UNCHANGED nonStyleVars

\* set_grid_line_style(line_style)
SetGridLineStyle ==
    /\ styleCall.method = "none"
    /\ styleOption.key = "linestyle"
    /\ styleCall' = StyleCalled("set_grid_line_style",
                                set_grid_line_style(styleOption.value))
    /\ UNCHANGED styleOption
    /\ UNCHANGED nonStyleVars

StyleNext == AddText \/ SetGridLineStyle

SpecStyle == StyleInit /\ [][StyleNext]_vars

(***************************************************************************)
(* Claims.                                                                 *)
(***************************************************************************)
\* the first segment [t_i, t_{i+1}] of timestamps t that contains q
FirstSegment(t, q) ==
    CHOOSE i \in 1..(Len(t) - 1) :
        /\ RatLe(t[i], q) /\ RatLe(q, t[i + 1])
        /\ \A j \in 1..(i - 1) : ~(RatLe(t[j], q) /\ RatLe(q, t[j + 1]))

Callable(rate) == rate.fn \notin {"not_callable", "unset"}

\* the local fraction of q in segment i of t, eased by the rate
Eased(rate, t, q, i) ==
    RateCall(rate, RatDiv(RatSub(q, t[i]), RatSub(t[i + 1], t[i]))).val

C1_Applies ==
    /\ floatAt.called
    /\ Callable(floatAnim.rate)
    /\ Len(floatAnim.values) = Len(floatAnim.t)
    /\ Len(floatAnim.t) >= 2
    /\ IsStrictlyIncreasing(floatAnim.t)
    /\ RatLe(floatAnim.t[1], floatAt.t)
    /\ RatLe(floatAt.t, floatAnim.t[Len(floatAnim.t)])

\* C1: for control values v_0..v_n at strictly increasing timestamps t_0..t_n
\* and t_0 <= t <= t_n, FloatAnimation.at(t) returns
\* v_i + (v_{i+1} - v_i) * rate((t - t_i) / (t_{i+1} - t_i)) for the first
\* segment [t_i, t_{i+1}] that contains t.
C1_AtInterpolatesFirstSegment ==
    C1_Applies =>
        LET i == FirstSegment(floatAnim.t, floatAt.t)
            v == floatAnim.values
        IN  /\ floatAt.err = "none"
            /\ floatAt.val =
                   RatAdd(RatInt(v[i]),
                          RatMul(RatInt(v[i + 1] - v[i]),
                                 Eased(floatAnim.rate, floatAnim.t, floatAt.t, i)))

\* at() was evaluated at the last timestamp of a three-point animation whose
\* last two values differ
C1_Witness ==
    /\ C1_Applies
    /\ Len(floatAnim.t) = 3
    /\ floatAt.t = floatAnim.t[3]
    /\ FirstSegment(floatAnim.t, floatAt.t) = 2
    /\ floatAnim.values[2] # floatAnim.values[3]

IsNameOrRGBA(color) == IsStr(color) \/ Len(color.ch) = 4

C2_Applies ==
    /\ colorAt.called
    /\ Callable(colorAnim.rate)
    /\ Len(colorAnim.colors) = Len(colorAnim.t)
    /\ Len(colorAnim.t) >= 2
    /\ IsStrictlyIncreasing(colorAnim.t)
    /\ \A k \in 1..Len(colorAnim.colors) : IsNameOrRGBA(colorAnim.colors[k])
    /\ RatLe(colorAnim.t[1], colorAt.t)
    /\ RatLe(colorAt.t, colorAnim.t[Len(colorAnim.t)])

\* C2: ColorAnimation.at(t) is from + amount * (to - from) on each of the four
\* channels red, green, blue and alpha of the two colours at the ends of the
\* first segment containing t, with amount the eased local fraction, for
\* colours given as names or as RGBA tuples; so fade_in(color) has alpha 0
\* at t = 0 and the colour's own alpha at t = 1.
C2_CrossFadesAllFourChannels ==
    C2_Applies =>
        LET i == FirstSegment(colorAnim.t, colorAt.t)
            from == to_rgba(colorAnim.colors[i])
            to == to_rgba(colorAnim.colors[i + 1])
            amount == Eased(colorAnim.rate, colorAnim.t, colorAt.t, i)
        IN  /\ colorAt.err = "none"
            /\ colorAt.val =
                   [k \in 1..4 |->
                       RatAdd(from[k], RatMul(amount, RatSub(to[k], from[k])))]

\* C4: constructing a Rate, a FloatAnimation or a ColorAnimation from a rate
\* name that is not linear, quadratic or cubic raises ValueError.
C4_UnknownRateNameRaisesValueError ==
    (rateCall.cls # "none" /\ rateCall.arg \notin BuiltInRates)
        => rateCall.err = "ValueError"

ListLikeLengths(kwargs) ==
    {Len(kwargs[i].value.items) : i \in {j \in 1..Len(kwargs) : IsListLike(kwargs[j].value)}}

SetMax(S) == CHOOSE m \in S : \A x \in S : x <= m

\* the length of the longest list-like argument, 1 when there is none
LongestListLike(kwargs) ==
    IF ListLikeLengths(kwargs) = {} THEN 1 ELSE SetMax(ListLikeLengths(kwargs))

\* the dicts are exactly `count` many, each with exactly the keys passed, a
\* list-like of length `count` giving its k-th element and every other
\* argument its whole value
YieldsZipped(kwargs, dicts, count) ==
    /\ Len(dicts) = count
    /\ \A k \in 1..Len(dicts) :
          /\ DOMAIN dicts[k] = {kwargs[i].key : i \in 1..Len(kwargs)}
          /\ \A i \in 1..Len(kwargs) :
                dicts[k][kwargs[i].key] =
                    IF IsListLike(kwargs[i].value) /\ Len(kwargs[i].value.items) = count
                    THEN PyScalar(kwargs[i].value.items[k])
                    ELSE kwargs[i].value

\* C3 as stated, for calls with at least one keyword argument:
\* smart_zip_kwargs yields exactly L dicts, L the length of the longest
\* list-like argument (1 when there is none), each with exactly the keys
\* passed; a list-like of length L contributes its k-th element to the k-th
\* dict and every other argument its whole value.
C3_YieldsLongestLengthDicts ==
    (zipOut.called /\ zipKwargs # <<>>) => YieldsZipped(zipKwargs, zipOut.dicts, LongestListLike(zipKwargs))

\* C3 amended: with at least one keyword argument, smart_zip_kwargs yields
\* exactly max(1, L) dicts, L the length of the longest list-like argument,
\* each with exactly the keys passed; a list-like of that length contributes
\* its k-th element and every other argument (an empty list-like too) its
\* whole value.  With no keyword argument it yields nothing.
C3_YieldsAtLeastOneDict ==
    zipOut.called =>
        IF zipKwargs = <<>> THEN zipOut.dicts = <<>>
        ELSE YieldsZipped(zipKwargs, zipOut.dicts,
                          IF LongestListLike(zipKwargs) < 1 THEN 1
                          ELSE LongestListLike(zipKwargs))

\* a call with a longest list-like of at least two elements, a shorter
\* non-empty list-like and a tuple
C3_Witness ==
    /\ zipOut.called
    /\ LongestListLike(zipKwargs) >= 2
    /\ \E i \in 1..Len(zipKwargs) :
          /\ IsListLike(zipKwargs[i].value)
          /\ Len(zipKwargs[i].value.items) \in 1..(LongestListLike(zipKwargs) - 1)
    /\ \E i \in 1..Len(zipKwargs) : zipKwargs[i].value.kind = "tuple"
    /\ Len(zipOut.dicts) = LongestListLike(zipKwargs)

Given(v) == ~IsNone(v)

\* exactly one of dx and x_head and exactly one of dy and y_head is given
ArrowAlternativeGiven(args) ==
    /\ Given(args.dx) # Given(args.x_head)
    /\ Given(args.dy) # Given(args.y_head)

\* exactly the pair (x_left, y_bottom) or exactly the pair (x_center, y_center)
RectangleAlternativeGiven(args) ==
    \/ /\ Given(args.x_left) /\ Given(args.y_bottom)
       /\ ~Given(args.x_center) /\ ~Given(args.y_center)
    \/ /\ Given(args.x_center) /\ Given(args.y_center)
       /\ ~Given(args.x_left) /\ ~Given(args.y_bottom)

C5_BadCall ==
    \/ shapeCall.method = "add_arrow" /\ ~ArrowAlternativeGiven(shapeCall.args)
    \/ shapeCall.method = "add_rectangle" /\ ~RectangleAlternativeGiven(shapeCall.args)

\* C5: add_arrow without exactly one of dx and x_head and exactly one of dy and
\* y_head, and add_rectangle without exactly the pair (x_left, y_bottom) or
\* exactly the pair (x_center, y_center), raise ValueError and leave the
\* patches of the Axes as they were.
C5_ConflictingPositionsRaiseBeforeAdding ==
    C5_BadCall => (shapeCall.err = "ValueError" /\ patches = shapeCall.before)

\* add_rectangle with x_left and y_center (one of each pair), of which one is
\* a list, was refused on an Axes that already held a patch
C5_Witness ==
    /\ shapeCall.method = "add_rectangle"
    /\ Given(shapeCall.args.x_left) /\ Given(shapeCall.args.y_center)
    /\ ~Given(shapeCall.args.x_center) /\ ~Given(shapeCall.args.y_bottom)
    /\ shapeCall.args.x_left.kind = "list"
    /\ shapeCall.err = "ValueError"
    /\ shapeCall.before # <<>>
    /\ patches = shapeCall.before

C6_BadAlignment ==
    \/ /\ alignCall.method = "set_ha"
       /\ alignCall.alignment \notin {"left", "center", "right"}
    \/ /\ alignCall.method = "set_va"
       /\ alignCall.alignment \notin
              {"top", "center", "bottom", "baseline", "center_baseline"}

\* C6: set_ha with an alignment outside {left, center, right} and set_va with
\* one outside {top, center, bottom, baseline, center_baseline}, on a
\* TextFormatter or a TextListFormatter, raise ValueError and leave the
\* alignment of every wrapped text as it was.
C6_BadAlignmentRaisesAndChangesNothing ==
    C6_BadAlignment => (alignCall.err = "ValueError" /\ texts = alignCall.before)

\* a TextListFormatter refused a horizontal alignment as vertical one, after
\* its texts had been given other alignments than a new Text has
C6_Witness ==
    /\ alignCall.cls = "TextListFormatter"
    /\ alignCall.method = "set_va"
    /\ alignCall.alignment = "left"
    /\ alignCall.err = "ValueError"
    /\ texts = alignCall.before
    /\ \E i \in 1..Len(texts) : texts[i] # NewText

SetsAddsOrRemoves(method) == method[1] \in {"set", "add", "remove"}

\* C7 as stated: every public method of the six formatters that sets, adds
\* or removes something returns the formatter object it was called on.
C7_SetAddRemoveReturnSelf ==
    (IsFormatter(chainCall.obj) /\ SetsAddsOrRemoves(chainCall.method))
        => chainCall.ret = chainCall.obj

\* C7, amended: every public method of the six formatters that sets, adds or
\* removes something returns the formatter object it was called on, except
\* AxesFormatter.add_legend, which returns the LegendFormatter of the legend
\* it added.
C7_SetAddRemoveReturnSelfExceptAddLegend ==
    (IsFormatter(chainCall.obj) /\ SetsAddsOrRemoves(chainCall.method))
        => IF chainCall.obj.cls = "AxesFormatter" /\ chainCall.method = <<"add", "legend">>
           THEN chainCall.ret = [cls |-> "LegendFormatter", id |-> chainCall.obj.id]
           ELSE chainCall.ret = chainCall.obj

\* remove_legend returned the AxesFormatter of a twin Axes it was called on,
\* ready for the next call of the chain
C7_Witness ==
    /\ chainCall.obj = [cls |-> "AxesFormatter", id |-> 2]
    /\ chainCall.method = <<"remove", "legend">>
    /\ chainCall.ret = chainCall.obj
    /\ receiver = chainCall.obj

RecognisedTypes ==
    {<<"e", "p", "s">>, <<"j", "p", "g">>, <<"j", "p", "e", "g">>,
     <<"p", "d", "f">>, <<"p", "g", "f">>, <<"p", "n", "g">>, <<"p", "s">>,
     <<"r", "a", "w">>, <<"r", "g", "b", "a">>, <<"s", "v", "g">>,
     <<"s", "v", "g", "z">>, <<"t", "i", "f">>, <<"t", "i", "f", "f">>}

EndsInRecognisedType(path) ==
    \E t \in RecognisedTypes : EndsWith(path, <<".">> \o t)

\* C8: save_plot without file_type writes to exactly file_path when the path
\* ends in '.' and a recognised type, and to file_path + '.png' otherwise.
C8_WithoutFileTypeWritesPathOrPng ==
    (saveCall.saved /\ saveCall.file_type = None)
        => saveCall.fname =
               IF EndsInRecognisedType(saveCall.file_path) THEN saveCall.file_path
               ELSE saveCall.file_path \o <<".", "p", "n", "g">>

\* a path whose last characters are a type without the '.' before them got
\* '.png' appended
C8_Witness ==
    /\ saveCall.saved /\ saveCall.file_type = None
    /\ saveCall.file_path = <<"a", "p", "n", "g">>
    /\ saveCall.fname = <<"a", "p", "n", "g", ".", "p", "n", "g">>

\* C9 as stated: every save_plot call that saves a file, with or without
\* file_type, writes to a path that ends with one extension '.' + t, t one of
\* FILE_TYPES (one: not appended to a path that already ends with it).
C9_SavedPathEndsInRecognisedType ==
    saveCall.saved
        => \E t \in RecognisedTypes :
               /\ EndsWith(saveCall.fname, <<".">> \o t)
               /\ EndsWith(saveCall.file_path, <<".">> \o t)
                      => saveCall.fname = saveCall.file_path

\* C9, amended: every save_plot call that saves a file, without file_type or
\* with a file_type of FILE_TYPES, writes to file_path when it ends with
\* '.' + t and to file_path + '.' + t otherwise, where t is the file_type
\* given, else the recognised type file_path ends in, else png.
C9_SavedPathEndsInTypeUsed ==
    (saveCall.saved
     /\ (saveCall.file_type = None \/ saveCall.file_type.v \in RecognisedTypes))
        => \E t \in RecognisedTypes :
               /\ saveCall.file_type # None => t = saveCall.file_type.v
               /\ EndsWith(saveCall.fname, <<".">> \o t)
               /\ saveCall.fname =
                      IF EndsWith(saveCall.file_path, <<".">> \o t)
                      THEN saveCall.file_path
                      ELSE saveCall.file_path \o <<".">> \o t

\* a path that ends in one type was saved as another type, given explicitly
C9_Witness ==
    /\ saveCall.saved
    /\ saveCall.file_type = Some(<<"p", "n", "g">>)
    /\ saveCall.file_path = <<"a", ".", "j", "p", "g">>
    /\ saveCall.fname = <<"a", ".", "j", "p", "g", ".", "p", "n", "g">>

KmbtPowers == {3, 6, 9, 12}
Suffix(p) == CASE p = 3 -> "K" [] p = 6 -> "M" [] p = 9 -> "B" [] p = 12 -> "T"

\* the tick is a number n >= 0, labelled with kmbt = True
KmbtTick == ~tickLabel.idle /\ tickLabel.kmbt /\ ~tickLabel.tick.empty
            /\ (~tickLabel.tick.number.neg \/ tickLabel.tick.number.m = 0)

\* n >= 10^p, by the digits of n
Reaches(num, p) == num.m > 0 /\ Len(WholeDigits(num)) > p

LargestPower(num) ==
    CHOOSE p \in KmbtPowers :
        Reaches(num, p) /\ \A q \in KmbtPowers : Reaches(num, q) => q <= p

HasSuffix(label) ==
    label # <<>> /\ label[Len(label)] \in {"K", "M", "B", "T"}

\* the text set_format_integer is to give n with kmbt: the quotient and the
\* suffix from 1000 on, no suffix below
IntegerLabelRight ==
    LET n == tickLabel.tick.number
        label == tickLabel.integer.v
    IN  IF Reaches(n, 3)
        THEN LET p == LargestPower(n)
                 quotient == [n EXCEPT !.k = n.k - p]
             IN  /\ label = FormatGeneral(quotient) \o <<Suffix(p)>>
                 /\ IsWhole(quotient) => \A i \in 1..Len(label) : label[i] # "."
        ELSE ~HasSuffix(label)

\* C10 as stated: with kmbt, set_format_integer labels n >= 1000 as n / 10^p
\* and K, M, B or T for the largest p of 3, 6, 9, 12 with n >= 10^p, with no
\* decimal part when the quotient is whole, and 0 <= n < 1000 with no suffix;
\* set_format_currency gives the same text after the currency symbol.
C10_KmbtLabels ==
    KmbtTick =>
        /\ tickLabel.integer # None => IntegerLabelRight
        /\ (tickLabel.integer # None /\ tickLabel.currency # None)
               => tickLabel.currency.v = tickLabel.symbol \o tickLabel.integer.v

\* C10, amended: with kmbt, set_format_integer labels n >= 1000 as n / 10^p
\* and K, M, B or T for the largest p of 3, 6, 9, 12 with n >= 10^p, with no
\* decimal part when the quotient is whole, and 0 <= n < 1000 with no suffix;
\* set_format_currency gives the same text after the currency symbol for
\* n >= 1000, and for a whole n below 1000 when num_decimals is 0; every
\* other n below 1000 it labels with the symbol and n with num_decimals
\* digits after the point, and no suffix.
C10_KmbtLabelsWithDecimals ==
    KmbtTick =>
        /\ tickLabel.integer # None => IntegerLabelRight
        /\ (tickLabel.integer # None /\ tickLabel.currency # None)
               => LET n == tickLabel.tick.number
                      label == tickLabel.currency.v
                      digits == tickLabel.num_decimals
                      text == SubSeq(label, Len(tickLabel.symbol) + 1, Len(label))
                  IN  IF Reaches(n, 3) \/ (IsWhole(n) /\ digits = 0)
                      THEN label = tickLabel.symbol \o tickLabel.integer.v
                      ELSE /\ SubSeq(label, 1, Len(tickLabel.symbol)) = tickLabel.symbol
                           /\ ~HasSuffix(label)
                           /\ IF digits = 0
                              THEN \A i \in 1..Len(text) : text[i] # "."
                              ELSE /\ Len(text) > digits
                                   /\ text[Len(text) - digits] = "."
                                   /\ \A i \in 1..Len(text) :
                                          i # Len(text) - digits => text[i] # "."

\* 1,500,000 labelled 1.5M by one formatter and USD1.5M by the other
C10_Witness ==
    /\ KmbtTick
    /\ Normalised(tickLabel.tick.number) = [neg |-> FALSE, m |-> 15, k |-> 5]
    /\ tickLabel.integer = Some(<<"1", ".", "5", "M">>)
    /\ tickLabel.currency = Some(<<"U", "S", "D", "1", ".", "5", "M">>)

\* t cut into consecutive chunks of w characters, joined by newlines
RECURSIVE Chunked(_, _)
Chunked(t, w) ==
    IF Len(t) <= w THEN t
    ELSE SubSeq(t, 1, w) \o <<NL>> \o Chunked(SubSeq(t, w + 1, Len(t)), w)

WithoutNewlines(chars) == SelectSeq(chars, LAMBDA c : c # NL)
NoLineLongerThan(chars, w) ==
    \A i \in 1..(Len(chars) - w) : \E k \in i..(i + w) : chars[k] = NL
IsText(text) == text.kind \in {"str", "text"}
\* a str, a Text, or a list of them
IsWrappable(text) ==
    \/ IsText(text)
    \/ text.kind = "list" /\ \A i \in 1..Len(text.items) : IsText(text.items[i])
WrapCalledWithWidth ==
    /\ wrapCall.called
    /\ wrapCall.max_width.some
    /\ wrapCall.max_width.v >= 1
    /\ IsWrappable(wrapCall.text)

ChunkedExactly(text, out, w) ==
    out = PyStr(Chunked(text.items, w))
WrappedWithin(text, out, w) ==
    /\ out.kind = "str"
    /\ NoLineLongerThan(out.items, w)
    /\ WithoutNewlines(out.items) = text.items
    /\ (\A i \in 1..Len(text.items) : text.items[i] # "-")
           => ChunkedExactly(text, out, w)
\* P(text, out, w) holds of a text and its result, or of each element of a
\* list and the element of the result in the same place
ForEachText(P(_, _, _)) ==
    LET text == wrapCall.text
        out == wrapCall.result
        w == wrapCall.max_width.v
    IN  IF IsText(text) THEN P(text, out, w)
        ELSE /\ out.kind = "list"
             /\ Len(out.items) = Len(text.items)
             /\ \A i \in 1..Len(text.items) : P(text.items[i], out.items[i], w)

\* C11 as stated: wrap_text with max_width w cuts a string without
\* whitespace (a str, a Text, each element of a list) into consecutive
\* chunks of w characters joined by newlines.
C11_CutIntoChunksOfWidth ==
    WrapCalledWithWidth => ForEachText(ChunkedExactly)

\* C11, amended: no line of the result is longer than w, removing the newlines
\* gives back the input, a list gives a list of the same length and order,
\* and a string without hyphens is cut into consecutive chunks of w
\* characters.
C11_WrappedWithinWidth ==
    WrapCalledWithWidth => ForEachText(WrappedWithin)

\* a list of two strings was wrapped and a line was broken
C11_Witness ==
    /\ WrapCalledWithWidth
    /\ wrapCall.text.kind = "list"
    /\ Len(wrapCall.text.items) = 2
    /\ wrapCall.result.kind = "list"
    /\ \E i \in 1..2 : \E k \in 1..Len(wrapCall.result.items[i].items) :
           wrapCall.result.items[i].items[k] = NL

\* out is mapping[text] when text is a key of the dict, and text otherwise
MappedByDict(text, out) ==
    LET dict == mapCall.mapping.items
    IN  IF text.items \in DOMAIN dict
        THEN out = dict[text.items]
        ELSE out = PyStr(text.items)

\* C12: map_text(text, mapping) with a dict returns mapping[text] when text
\* is one of its keys and text unchanged otherwise; a list of texts is mapped
\* element by element.
C12_DictMapsKeysAndKeepsOthers ==
    (mapCall.called /\ mapCall.mapping.kind = "dict") =>
        LET text == mapCall.text
            out == mapCall.result
        IN  /\ IsText(text) => MappedByDict(text, out)
            /\ IsWrappable(text) /\ ~IsText(text) =>
                   /\ out.kind = "list"
                   /\ Len(out.items) = Len(text.items)
                   /\ \A i \in 1..Len(text.items) :
                          MappedByDict(text.items[i], out.items[i])

\* a dict replaced one text of a list and kept the other
C12_Witness ==
    /\ mapCall.called
    /\ mapCall.mapping.kind = "dict"
    /\ mapCall.text.kind = "list"
    /\ Len(mapCall.text.items) = 2
    /\ mapCall.result.kind = "list"
    /\ mapCall.text.items[1].items \in DOMAIN mapCall.mapping.items
    /\ mapCall.result.items[1] # PyStr(mapCall.text.items[1].items)
    /\ mapCall.text.items[2].items \notin DOMAIN mapCall.mapping.items
    /\ mapCall.result.items[2] = mapCall.text.items[2]

\* the FigureFormatter was built from a Figure with a grid of n_rows x n_cols
\* and as many Axes
BuiltFromFullGrid(n_rows, n_cols) ==
    /\ figFormatter.err = "none"
    /\ figFormatter.has_array
    /\ figFormatter.array.ndim = 2
    /\ figFormatter.array.shape = <<n_rows, n_cols>>

\* C13: a FigureFormatter built from a Figure with a grid of R rows and C
\* columns and R*C Axes has an axes array of shape (R, C) that holds
\* figure.axes in row-major order: axes[r, c] wraps figure.axes[r*C + c].
C13_AxesArrayIsRowMajor ==
    \A n_rows \in 1..MaxRows, n_cols \in 1..MaxCols :
        BuiltFromFullGrid(n_rows, n_cols) =>
            /\ multi(figFormatter).shape = <<n_rows, n_cols>>
            /\ \A r \in 0..(n_rows - 1), c \in 0..(n_cols - 1) :
                   multi(figFormatter).rows[r + 1][c + 1] =
                       AxesFormatter(figFormatter.figure[r * n_cols + c + 1])

\* a formatter built from a Figure of 2 x 3 Axes whose list starts with Axes 2
C13_Witness ==
    /\ BuiltFromFullGrid(2, 3)
    /\ figFormatter.figure[1] = 2
    /\ multi(figFormatter).rows[2][1].axes = 5

\* the calls of the last setter that set the text of Axes axes
CallsOn(axes) ==
    {k \in 1..Len(setTextCall.calls) : setTextCall.calls[k].axes = axes}
\* Axes axes was set exactly once, and to string
SetOnceTo(axes, string) ==
    /\ Cardinality(CallsOn(axes)) = 1
    /\ \A k \in CallsOn(axes) : setTextCall.calls[k].string = string
\* a per-Axes text setter was called with a function on an array of Axes
SetterCalledWithFunction ==
    /\ setTextCall.err # "uncalled"
    /\ setTextCall.text.kind = "callable"
    /\ figFormatter.has_array

\* C18 as stated: given a function, a per-Axes text setter sets the text of
\* each Axes of a 1-D or 2-D array exactly once, to the function's value at
\* the Axes' (row, column), or at its flat index for a function of one
\* argument.
C18_FunctionSetsEachAxesOnce ==
    SetterCalledWithFunction =>
        LET array == figFormatter.array
            text == setTextCall.text
        IN  /\ setTextCall.err = "none"
            /\ \A a \in 0..(Size(array) - 1) :
                   SetOnceTo(Flat(array)[a + 1],
                             IF text.len = 1 \/ array.ndim = 1
                             THEN <<"value", a>>
                             ELSE <<"value", a \div array.shape[2],
                                    a % array.shape[2]>>)

\* add_arrow was called with numbers: x_tail, y_tail and the two arguments
\* `first` and `second` of its call, the two arguments `no1`, `no2` left out
ArrowCalledWith(first, second, no1, no2) ==
    /\ shapeCall.method = "add_arrow"
    /\ IsScalar(shapeCall.args.x_tail) /\ IsScalar(shapeCall.args.y_tail)
    /\ IsScalar(shapeCall.args[first]) /\ IsScalar(shapeCall.args[second])
    /\ ~Given(shapeCall.args[no1]) /\ ~Given(shapeCall.args[no2])
\* the call added one arrow at (x_tail, y_tail) with displacement (dx, dy)
OneArrowAdded(dx, dy) ==
    /\ shapeCall.err = "none"
    /\ patches = Append(shapeCall.before,
                        Patch("Arrow", Num(shapeCall.args.x_tail),
                              Num(shapeCall.args.y_tail), dx, dy, Zero))

\* C14 as stated: add_arrow with x_tail, y_tail, dx and dy adds one arrow at
\* (x_tail, y_tail) with displacement (dx, dy); with x_head and y_head
\* instead, one arrow with displacement (x_head - x_tail, y_head - y_tail).
C14_ArrowFromDisplacementOrHead ==
    /\ ArrowCalledWith("dx", "dy", "x_head", "y_head") =>
           OneArrowAdded(Num(shapeCall.args.dx), Num(shapeCall.args.dy))
    /\ ArrowCalledWith("x_head", "y_head", "dx", "dy") =>
           OneArrowAdded(RatSub(Num(shapeCall.args.x_head),
                                Num(shapeCall.args.x_tail)),
                         RatSub(Num(shapeCall.args.y_head),
                                Num(shapeCall.args.y_tail)))

\* the nesting depth after each of the first k characters
RECURSIVE Depth(_, _)
Depth(text, k) ==
    IF k = 0 THEN 0
    ELSE Depth(text, k - 1) + (IF text[k] = "(" THEN 1
                               ELSE IF text[k] = ")" THEN -1 ELSE 0)
Balanced(text) ==
    /\ \A k \in 1..Len(text) : Depth(text, k) >= 0
    /\ Depth(text, Len(text)) = 0
\* the characters of text outside all parentheses, in order
RECURSIVE OutsideFrom(_, _)
OutsideFrom(text, k) ==
    IF k > Len(text) THEN <<>>
    ELSE (IF text[k] \notin {"(", ")"} /\ Depth(text, k) = 0
          THEN <<text[k]>> ELSE <<>>) \o OutsideFrom(text, k + 1)
Outside(text) == OutsideFrom(text, 1)

\* C15: for every input with balanced parentheses, nested or not, the
\* result of remove_parenthesized_text contains no parenthesis and is
\* exactly the characters outside all parentheses, in order.
C15_BalancedInputLosesParenthesizedText ==
    (parenLoop.pc = "returned" /\ Balanced(parenLoop.input.items)) =>
        /\ ~Contains(parenLoop.text, "(")
        /\ ~Contains(parenLoop.text, ")")
        /\ parenLoop.text = Outside(parenLoop.input.items)

\* C19: remove_parenthesized_text terminates for every input, those with
\* unbalanced parentheses or with ')' before '(' included.
C19_RemoveParenthesizedTextTerminates ==
    <>(parenLoop.pc \in {"returned", "MemoryError"})

\* the elements of list whose 0-based position is not in indices, in order
RECURSIVE KeptFrom(_, _, _)
KeptFrom(list, indices, k) ==
    IF k > Len(list) THEN <<>>
    ELSE (IF \E j \in 1..Len(indices) : indices[j] = k - 1
          THEN <<>> ELSE <<list[k]>>) \o KeptFrom(list, indices, k + 1)
Kept(list, indices) == KeptFrom(list, indices, 1)
\* remove_entries was called with indices of entries of the legend
RemovedValidEntries ==
    /\ legendCall.method = "remove_entries"
    /\ \A j \in 1..Len(legendCall.indices) :
           legendCall.indices[j] < Len(legendCall.before.handles)

\* C16: remove_entries(indices) replaces the legend by one that holds exactly
\* the entries whose original position is not in indices, in their original
\* order, each label with its own handle, for valid indices in any order and
\* with repeats.
C16_RemoveEntriesKeepsTheOthers ==
    RemovedValidEntries =>
        /\ legendCall.err = "none"
        /\ legendAxes.legend = legendFormatter
        /\ legendFormatter.id # legendCall.before.id
        /\ legendFormatter.handles =
               Kept(legendCall.before.handles, legendCall.indices)
        /\ legendFormatter.labels =
               Kept(legendCall.before.labels, legendCall.indices)

\* C20: after any sequence of add_legend, remove_legend,
\* set_font_sizes(legend=...) and LegendFormatter operations, the legend
\* property of the AxesFormatter is None exactly when the Axes has no
\* legend, and otherwise wraps the legend attached to the Axes.
C20_LegendPropertyWrapsAttachedLegend ==
    legendFormatter.id = legendAxes.legend.id

\* the 0-based indices start, start + s, start + 2s, ... of a list of n
\* elements that are not beyond end
SpacedIndices(s, n) ==
    {i \in 0..(n - 1) :
        /\ \E j \in 0..n : i = keepCall.start + j * s
        /\ keepCall.end.some => i <= keepCall.end.v}

\* C17: keep_ticks with spacing s, start and end keeps exactly the tick
\* labels (label_spacing) and the tick locations (tick_spacing) at the
\* indices start, start + s, start + 2s, ... not beyond end.
C17_KeepsEverySthFromStartToEnd ==
    keepCall.called =>
        LET before == keepCall.before
        IN  /\ keepCall.label_spacing.some =>
                   \A i \in 0..(Len(before.labels) - 1) :
                       tickAxis.labels[i + 1] =
                           IF i \in SpacedIndices(keepCall.label_spacing.v,
                                                  Len(before.labels))
                           THEN before.labels[i + 1] ELSE <<>>
            /\ keepCall.tick_spacing.some =>
                   tickAxis.locations =
                       AtPositions(before.locations,
                                   {i + 1 : i \in SpacedIndices(
                                                keepCall.tick_spacing.v,
                                                Len(before.locations))}, 1)

\* map_labels was called on a legend with a label for every handle
LabelsMapped ==
    /\ legendCall.method = "map_labels"
    /\ Len(legendCall.before.handles) = Len(legendCall.before.labels)

\* C21: map_labels maps the labels the legend shows at the moment of the
\* call: the new legend has as many entries as the legend before the call,
\* and each handle has the mapped version of the label it had just before.
C21_MapLabelsMapsTheLabelsShown ==
    LabelsMapped =>
        /\ legendFormatter.handles = legendCall.before.handles
        /\ Len(legendFormatter.labels) = Len(legendCall.before.labels)
        /\ \A k \in 1..Len(legendCall.before.labels) :
               legendFormatter.labels[k] =
                   map_text(PyStr(legendCall.before.labels[k]),
                            legendCall.mapping).items

\* the calls of one frame: a draw for each shape, then the snap
FrameLen == Len(animator.shapes) + 1
FramesSnapped == Len(animCalls) \div FrameLen
FrameCall(j, k) == animCalls[(j - 1) * FrameLen + k]
\* the normalised time of a frame, as its first draw received it
FrameTime(j) == FrameCall(j, 1).t

\* every snap closes a frame in which each shape was drawn once, in the order
\* of add_animation and at one time, and nothing is snapped anywhere else
FramesDrawnInOrder ==
    /\ \A p \in 1..Len(animCalls) :
           (animCalls[p].op = "snap") <=> (p % FrameLen = 0)
    /\ \A j \in 1..FramesSnapped : \A k \in 1..Len(animator.shapes) :
           FrameCall(j, k) = DrawCall(animator.shapes[k], FrameTime(j))

\* the time is 0 in the first frame, rises strictly and stays inside [0, 1]
TimesRiseFromZero ==
    Len(animator.shapes) >= 1 =>
        /\ FramesSnapped >= 1 => FrameTime(1) = Zero
        /\ \A j \in 1..FramesSnapped :
               RatLe(Zero, FrameTime(j)) /\ RatLe(FrameTime(j), One)
        /\ \A j \in 1..(FramesSnapped - 1) : RatLt(FrameTime(j), FrameTime(j + 1))

Animated == animator.pc = "saved" /\ Len(animator.shapes) >= 1
WholeFrames == int(RatMul(animator.duration, RatInt(animator.fps)))

\* C22 (as stated): in animate() with duration > 0 every frame is snapped after
\* each shape added was drawn once, in order, at one normalised time; the time
\* rises strictly, is 0 in the first frame and 1 in the last, within [0, 1]
C22_FramesRunFromZeroToOne ==
    /\ FramesDrawnInOrder
    /\ TimesRiseFromZero
    /\ Animated => FrameTime(FramesSnapped) = One

\* C22 (amended): the same, but the last frame is at time 1 only when
\* duration * fps >= 1; below that there is one frame, at time 0
C22_FramesRunFromZeroToOneIfTwoFrames ==
    /\ FramesDrawnInOrder
    /\ TimesRiseFromZero
    /\ Animated =>
           /\ FramesSnapped = 1 + WholeFrames
           /\ FrameTime(FramesSnapped) = IF WholeFrames >= 1 THEN One ELSE Zero

C22_Witness ==
    /\ animator.pc = "saved"
    /\ Len(animator.shapes) = MaxShapes
    /\ animator.shapes[1] > animator.shapes[2]
    /\ FramesSnapped >= 3
    /\ FrameTime(FramesSnapped) = One

\* the number of Axes a FigureFormatter holds
NumberOfAxes ==
    IF figFormatter.has_array THEN Len(Flat(figFormatter.array)) ELSE 1
\* a step in which a per-Axes text setter is given a list of another length
ListOfOtherLengthGiven ==
    /\ setTextCall'.text.kind = "list"
    /\ setTextCall'.text.len # NumberOfAxes
\* the setter called nothing, and every Axes has the text it had
NoTextChanged == setTextCall'.calls = <<>> /\ titles' = titles

NoRateArg == [tag |-> "none", name |-> ""]
FloatBuiltWithoutTimes ==
    floatAnim = FloatAnimation_init(Some(floatAnim.values), None, NoRateArg)
ColorBuiltWithoutTimes ==
    /\ colorAnim.err = "none"
    /\ colorAnim = ColorAnimation_init(colorAnim.colors, None, NoRateArg)
\* the time at which the k-th of n evenly spaced control values stands
EvenTime(k, n) == Rat(k, n - 1)

\* at() of the FloatAnimation, asked at the time of a control value, gave it
FloatAtControlValues ==
    (FloatBuiltWithoutTimes /\ floatAt.called) =>
        \A k \in 0..(Len(floatAnim.values) - 1) :
            floatAt.t = EvenTime(k, Len(floatAnim.values)) =>
                /\ floatAt.err = "none"
                /\ floatAt.val = RatInt(floatAnim.values[k + 1])
\* at() of the ColorAnimation, asked at the time of a control value, gave
\* the red, green and blue of that colour
ColorAtControlValues ==
    (ColorBuiltWithoutTimes /\ colorAt.called) =>
        \A k \in 0..(Len(colorAnim.colors) - 1) :
            colorAt.t = EvenTime(k, Len(colorAnim.colors)) =>
                /\ colorAt.err = "none"
                /\ SubSeq(colorAt.val, 1, 3) = to_rgb(colorAnim.colors[k + 1])

\* C24 (as stated): with the timestamps omitted a FloatAnimation and a
\* ColorAnimation of n >= 2 control values place them at evenly spaced times
\* over [0, 1]: with the linear rate at(k / (n - 1)) is the k-th control value,
\* at(0) the first and at(1) the last
C24_ControlValuesEvenlySpaced == FloatAtControlValues /\ ColorAtControlValues

\* what the plotting library received for the style option of the call
ReceivedForOption ==
    IF styleCall.method = "set_grid_line_style"
    THEN {styleCall.text[kw] : kw \in DOMAIN styleCall.text}
    ELSE {styleCall.text[kw] : kw \in DOMAIN styleCall.text \cap {styleOption.key}}
         \cup {styleCall.bbox[kw] : kw \in DOMAIN styleCall.bbox \cap {styleOption.key}}
\* the name the plotting library knows the member by: what get_name() gives,
\* or the member's own name in an enumeration without get_name
LibraryName(member) ==
    IF member.cls \in DOMAIN GetNameDicts
    THEN GetNameDicts[member.cls][member.name]
    ELSE member.name

\* C25 (as stated): a style enum member passed as an option to an add_* or
\* set_* method reaches the plotting library as the string get_name() gives
\* for it (LINE_STYLE.dash_dot as 'dashdot'), never as the enum object and
\* never raising; plain strings and None pass through unchanged
C25_StyleMemberReachesLibraryByName ==
    styleCall.method # "none" =>
        /\ styleCall.err = "none"
        /\ styleOption.value.kind = "enum" =>
               ReceivedForOption = {StyleStr(LibraryName(styleOption.value))}
        /\ styleOption.value.kind = "str" =>
               ReceivedForOption = {styleOption.value}
        /\ styleOption.value.kind = "none" =>
               ReceivedForOption \subseteq {StyleNone}

====
